---- MODULE Spec2Model ----
(***************************************************************************)
(* Valuation and aggregation engine of invest_master.                      *)
(*                                                                         *)
(* The store (tb_transactions, tb_market_data, tb_exchange_rates, with the *)
(* metadata tables tb_assets and tb_accounts) is the state; the queries of *)
(* PortfolioRepository, the rate resolution of FxService and the assembly  *)
(* of PortfolioService are operators over it.                              *)
(*                                                                         *)
(* Numbers.  The code computes with NUMERIC and float; the model uses      *)
(* fixed point integers:                                                   *)
(*   qty, cash_flow, balance      in units of 1/AmountScale  (0.0001)      *)
(*   price, avg_cost, latest_price in units of 1/PriceScale  (0.1)         *)
(*   rate                          in units of 1/RateScale   (0.001)       *)
(*   value_local  = qty * price    in units of 1/(AmountScale*PriceScale)  *)
(*   value_base   = value_local * rate, in units of                        *)
(*                  1/(AmountScale*PriceScale*RateScale)                   *)
(* A SQL NULL / Python None is the empty sequence <<>>, a present value v  *)
(* is <<v>>.                                                               *)
(***************************************************************************)
EXTENDS Integers, Sequences, FiniteSets

VARIABLES
    ledger,     \* tb_transactions: sequence of rows, in insertion order
    prices,     \* tb_market_data: set of rows [asset_id, date, close_price]
    rates,      \* tb_exchange_rates: set of rows [from_currency, to_currency, date, rate]
    fx,         \* the FxService of the live PortfolioService, or NoService
    result      \* what the last operation returned to its caller

vars == <<ledger, prices, rates, fx, result>>

----------------------------------------------------------------------------
(* Fixed point units and the thresholds of the queries *)

AmountScale == 10000
PriceScale == 10
RateScale == 1000

\* HAVING SUM(t.qty) > 0.0001
QtyEps == 1
\* HAVING ABS(SUM(t.cash_flow)) > 0.01
CashEps == 100
\* the rate 1.0
RateOne == RateScale
\* the price 1.0 of a cash row
PriceOne == PriceScale

NULL == <<>>
Some(v) == <<v>>
IsNull(x) == x = <<>>
Val(x) == x[1]

----------------------------------------------------------------------------
(* Bounds of the model *)

MaxTx == 3

----------------------------------------------------------------------------
(* Metadata tables *)

Currencies == {"CNY", "USD", "HKD", "XYZ"}

\* tb_assets
Assets ==
    [a \in {1, 2, 3} |->
        CASE a = 1 ->
             [asset_id |-> 1, ticker |-> "ABC", name |-> "Abc Corp",
              asset_class |-> "EQUITY", sub_class |-> "US", currency |-> "USD"]
          [] a = 2 ->
             [asset_id |-> 2, ticker |-> "XBD", name |-> "Xyz Bond",
              asset_class |-> "BOND", sub_class |-> "", currency |-> "XYZ"]
          [] a = 3 ->
             [asset_id |-> 3, ticker |-> "EFG", name |-> "Efg Holdings",
              asset_class |-> "EQUITY", sub_class |-> "HK", currency |-> "HKD"]]

\* tb_accounts
Accounts ==
    [c \in {1, 2} |->
        IF c = 1
        THEN [account_id |-> 1, account_name |-> "IB"]
        ELSE [account_id |-> 2, account_name |-> "CMB"]]

Dates == {1, 2}
AsOfDates == {NULL} \cup {Some(d) : d \in Dates}

\* A row of tb_transactions (the columns the engine reads)
Tx(date, type, account_id, asset_id, qty, price, cash_flow, currency) ==
    [date |-> date, type |-> type, account_id |-> account_id,
     asset_id |-> asset_id, qty |-> qty, price |-> price,
     cash_flow |-> cash_flow, currency |-> currency]

----------------------------------------------------------------------------
(* Helpers over sequences *)

RECURSIVE SumSeq(_)
SumSeq(s) ==
    IF s = <<>> THEN 0 ELSE Head(s) + SumSeq(Tail(s))

\* s with f applied to every element
MapSeq(s, f(_)) == [i \in 1..Len(s) |-> f(s[i])]

Abs(x) == IF x < 0 THEN -x ELSE x

\* NUMERIC division of non-negative n by positive d, rounded to the unit
RoundDiv(n, d) == (2 * n + d) \div (2 * d)

----------------------------------------------------------------------------
(* Orderings.  ORDER BY on text columns and DataFrame.sort_values compare   *)
(* strings; the model ranks the strings it uses in that order.             *)

StrOrder ==
    <<"", "ABC", "BOND", "CASH", "CMB", "CMB_CNY", "CMB_HKD", "CMB_USD",
      "CMB_XYZ", "CNY", "EFG", "EQUITY", "HKD", "IB", "IB_CNY", "IB_HKD", "IB_USD",
      "IB_XYZ", "USD", "XBD", "XYZ">>

StrRank(s) == CHOOSE i \in 1..Len(StrOrder) : StrOrder[i] = s

\* a.asset_class is an enumerated column: ORDER BY follows the declaration order
AssetClassOrder ==
    <<"EQUITY", "BOND", "COMMODITY", "REITS", "CASH", "ALTERNATIVE", "MULTI",
      "BENCHMARK">>

ClassRank(c) == CHOOSE i \in 1..Len(AssetClassOrder) : AssetClassOrder[i] = c

\* lexicographic order on triples and pairs of integers
Lex3Leq(x, y) ==
    \/ x[1] < y[1]
    \/ x[1] = y[1] /\ x[2] < y[2]
    \/ x[1] = y[1] /\ x[2] = y[2] /\ x[3] <= y[3]

Lex2Leq(x, y) ==
    \/ x[1] < y[1]
    \/ x[1] = y[1] /\ x[2] <= y[2]

----------------------------------------------------------------------------
(* PortfolioRepository.get_positions *)

\* (variant: the bound is exclusive)
DateFilter_Exclusive(t, as_of_date) ==
    IsNull(as_of_date) \/ t.date < Val(as_of_date)

\* WHERE ... AND t.date <= %(as_of_date)s, present only when as_of_date is given
DateFilter(t, as_of_date) ==
    IsNull(as_of_date) \/ t.date <= Val(as_of_date)

\* (variant: the type of the transaction is not looked at)
PositionFilter_AnyType(t, as_of_date) ==
    /\ ~IsNull(t.asset_id)
    /\ Val(t.asset_id) \in DOMAIN Assets
    /\ ~IsNull(t.qty)
    /\ (IsNull(as_of_date) \/ t.date <= Val(as_of_date))

\* JOIN tb_assets a ON t.asset_id = a.id WHERE t.type IN ('BUY','SELL')
\*   AND t.qty IS NOT NULL {date_filter}
PositionFilter(t, as_of_date) ==
    /\ ~IsNull(t.asset_id)
    /\ Val(t.asset_id) \in DOMAIN Assets
    /\ t.type \in {"BUY", "SELL"}
    /\ ~IsNull(t.qty)
    /\ DateFilter(t, as_of_date)

\* the filtered rows of one asset (one GROUP BY group)
PositionRows(L, as_of_date, a) ==
    SelectSeq(L, LAMBDA t : PositionFilter(t, as_of_date) /\ Val(t.asset_id) = a)

\* SUM(t.qty)
TotalQty(rows) ==
    SumSeq(MapSeq(rows, LAMBDA t : Val(t.qty)))

\* (variant: the sells are not left out of the cost)
CostTerm_AllRows(t) ==
    IF IsNull(t.price) THEN NULL ELSE Some(Val(t.qty) * Val(t.price))

\* one term of SUM(CASE WHEN t.qty > 0 THEN t.qty * t.price ELSE 0 END);
\* qty * NULL is NULL
CostTerm(t) ==
    IF Val(t.qty) > 0
    THEN IF IsNull(t.price) THEN NULL ELSE Some(Val(t.qty) * Val(t.price))
    ELSE Some(0)

\* one term of SUM(CASE WHEN t.qty > 0 THEN t.qty ELSE 0 END)
BuyQtyTerm(t) ==
    IF Val(t.qty) > 0 THEN Val(t.qty) ELSE 0

\* SUM over nullable terms: NULL terms are skipped, all NULL gives NULL
SumNullable(terms) ==
    LET present == SelectSeq(terms, LAMBDA x : ~IsNull(x))
    IN  IF present = <<>> THEN NULL
        ELSE Some(SumSeq(MapSeq(present, LAMBDA x : Val(x))))

\* SUM(CASE...qty*price) / NULLIF(SUM(CASE...qty), 0)
AvgCost(rows) ==
    LET num == SumNullable(MapSeq(rows, CostTerm))
        den == SumSeq(MapSeq(rows, BuyQtyTerm))
    IN  IF den = 0 \/ IsNull(num) THEN NULL
        ELSE Some(RoundDiv(Val(num), den))

\* (variant: every asset with a total other than zero is kept)
HavingPosition_NonZero(total_qty) == total_qty # 0

\* HAVING SUM(t.qty) > 0.0001
HavingPosition(total_qty) == total_qty > QtyEps

\* ORDER BY a.asset_class, a.currency, a.ticker
PositionKey(a) ==
    <<ClassRank(Assets[a].asset_class), StrRank(Assets[a].currency),
      StrRank(Assets[a].ticker)>>

RECURSIVE SortAssets(_)
SortAssets(S) ==
    IF S = {} THEN <<>>
    ELSE LET m == CHOOSE x \in S :
                    \A y \in S : Lex3Leq(PositionKey(x), PositionKey(y))
         IN  <<m>> \o SortAssets(S \ {m})

PositionRecord(L, as_of_date, a) ==
    [asset_id |-> a, ticker |-> Assets[a].ticker, name |-> Assets[a].name,
     asset_class |-> Assets[a].asset_class, sub_class |-> Assets[a].sub_class,
     currency |-> Assets[a].currency,
     total_qty |-> TotalQty(PositionRows(L, as_of_date, a)),
     avg_cost |-> AvgCost(PositionRows(L, as_of_date, a))]

get_positions(L, as_of_date) ==
    LET held == {a \in DOMAIN Assets :
                    /\ PositionRows(L, as_of_date, a) # <<>>
                    /\ HavingPosition(TotalQty(PositionRows(L, as_of_date, a)))}
    IN  MapSeq(SortAssets(held), LAMBDA a : PositionRecord(L, as_of_date, a))

----------------------------------------------------------------------------
(* PortfolioRepository.get_cash_balances *)

\* (variant: only the cash movements are summed)
CashFilter_CashTypesOnly(t, as_of_date) ==
    /\ t.account_id \in DOMAIN Accounts
    /\ t.type \in {"DEPOSIT", "WITHDRAW", "DIVIDEND", "INTEREST"}
    /\ (IsNull(as_of_date) \/ t.date <= Val(as_of_date))

\* JOIN tb_accounts acc ON t.account_id = acc.id WHERE 1=1 {date_filter}
CashFilter(t, as_of_date) ==
    /\ t.account_id \in DOMAIN Accounts
    /\ DateFilter(t, as_of_date)

\* the filtered rows of one (account, currency) group
CashRows(L, as_of_date, acc, cur) ==
    SelectSeq(L, LAMBDA t : /\ CashFilter(t, as_of_date)
                            /\ t.account_id = acc
                            /\ t.currency = cur)

\* SUM(t.cash_flow)
Balance(rows) ==
    SumSeq(MapSeq(rows, LAMBDA t : t.cash_flow))

\* (variant: every balance other than zero is kept)
HavingCash_NonZero(balance) == balance # 0

\* HAVING ABS(SUM(t.cash_flow)) > 0.01
HavingCash(balance) == Abs(balance) > CashEps

\* ORDER BY acc.name, t.currency
CashKey(g) ==
    <<StrRank(Accounts[g[1]].account_name), StrRank(g[2])>>

RECURSIVE SortCashGroups(_)
SortCashGroups(S) ==
    IF S = {} THEN <<>>
    ELSE LET m == CHOOSE x \in S : \A y \in S : Lex2Leq(CashKey(x), CashKey(y))
         IN  <<m>> \o SortCashGroups(S \ {m})

CashRecord(L, as_of_date, g) ==
    [account_id |-> g[1], account_name |-> Accounts[g[1]].account_name,
     currency |-> g[2],
     balance |-> Balance(CashRows(L, as_of_date, g[1], g[2]))]

get_cash_balances(L, as_of_date) ==
    LET groups == {g \in (DOMAIN Accounts) \X Currencies :
                    /\ CashRows(L, as_of_date, g[1], g[2]) # <<>>
                    /\ HavingCash(Balance(CashRows(L, as_of_date, g[1], g[2])))}
    IN  MapSeq(SortCashGroups(groups), LAMBDA g : CashRecord(L, as_of_date, g))

----------------------------------------------------------------------------
(* PortfolioRepository.get_latest_market_prices and get_latest_exchange_rates *)

\* (variant: ORDER BY key, date ascending keeps the oldest row)
LatestRows_Oldest(rows) ==
    {r \in rows : \A q \in rows : q.date >= r.date}

\* the rows DISTINCT ON (key) ... ORDER BY key, date DESC may keep for one key:
\* a row of the greatest date (which one, among several, the query leaves open)
LatestRows(rows) ==
    {r \in rows : \A q \in rows : q.date <= r.date}

\* every dict { ticker: {'price', 'date'} } the query can return
get_latest_market_prices(P) ==
    LET priced == {a \in DOMAIN Assets : \E r \in P : r.asset_id = a}
        OfAsset(a) == {r \in P : r.asset_id = a}
        picks == {f \in [priced -> P] : \A a \in priced : f[a] \in LatestRows(OfAsset(a))}
        Pick(f, tk) == f[CHOOSE a \in priced : Assets[a].ticker = tk]
    IN  {[tk \in {Assets[a].ticker : a \in priced} |->
            [price |-> Pick(f, tk).close_price, date |-> Pick(f, tk).date]] :
         f \in picks}

\* every dict { from_currency: rate } the query can return
get_latest_exchange_rates(R, to_currency) ==
    LET rows == {r \in R : r.to_currency = to_currency}
        froms == {r.from_currency : r \in rows}
        OfFrom(c) == {r \in rows : r.from_currency = c}
    IN  {[c \in froms |-> f[c].rate] :
         f \in {g \in [froms -> rows] : \A c \in froms : g[c] \in LatestRows(OfFrom(c))}}

----------------------------------------------------------------------------
(* FxService *)

\* FALLBACK_RATES, in units of 1/RateScale
FALLBACK_RATES ==
    [k \in {<<"USD", "CNY">>, <<"HKD", "CNY">>, <<"CNY", "CNY">>,
            <<"EUR", "CNY">>, <<"GBP", "CNY">>, <<"JPY", "CNY">>} |->
        CASE k = <<"USD", "CNY">> -> 7250
          [] k = <<"HKD", "CNY">> -> 930
          [] k = <<"CNY", "CNY">> -> 1000
          [] k = <<"EUR", "CNY">> -> 7850
          [] k = <<"GBP", "CNY">> -> 9100
          [] k = <<"JPY", "CNY">> -> 48]

\* self._db_rates = {} : the dict with no key
EmptyRates == [c \in {} |-> 0]

\* no service built yet
NoService ==
    [target |-> "", db_rates |-> EmptyRates, loaded |-> FALSE,
     load_failed |-> FALSE]

\* FxService.__init__ with _load_from_db: the dict the query returned, or the
\* empty dict when the query raised (the exception is caught and reported)
FxService(target_currency, loaded_rates, load_failed) ==
    [target |-> target_currency,
     db_rates |-> IF load_failed THEN EmptyRates ELSE loaded_rates,
     loaded |-> TRUE,
     load_failed |-> load_failed]

\* to_currency = to_currency or self._target
ToCurrency(svc, to_currency) ==
    IF IsNull(to_currency) THEN svc.target ELSE Val(to_currency)

\* (variant: the static table is consulted before the loaded rates)
RateLookup_FallbackFirst(svc, from_currency, to_currency) ==
    LET to == ToCurrency(svc, to_currency)
    IN  IF <<from_currency, to>> \in DOMAIN FALLBACK_RATES
        THEN [rate |-> FALLBACK_RATES[<<from_currency, to>>], source |-> "fallback"]
        ELSE IF from_currency = to
        THEN [rate |-> RateOne, source |-> "same"]
        ELSE IF to = svc.target /\ from_currency \in DOMAIN svc.db_rates
        THEN [rate |-> svc.db_rates[from_currency], source |-> "db"]
        ELSE [rate |-> RateOne, source |-> "default"]

\* (variant: a missing rate values the amount at nothing)
RateLookup_DefaultZero(svc, from_currency, to_currency) ==
    LET to == ToCurrency(svc, to_currency)
    IN  IF from_currency = to
        THEN [rate |-> RateOne, source |-> "same"]
        ELSE IF to = svc.target /\ from_currency \in DOMAIN svc.db_rates
        THEN [rate |-> svc.db_rates[from_currency], source |-> "db"]
        ELSE IF <<from_currency, to>> \in DOMAIN FALLBACK_RATES
        THEN [rate |-> FALLBACK_RATES[<<from_currency, to>>], source |-> "fallback"]
        ELSE [rate |-> 0, source |-> "default"]

\* FxService.get_rate as an ordered chain: the rate and where it came from
\* ("same", "db", "fallback", or "default" with the warning printed)
RateLookup(svc, from_currency, to_currency) ==
    LET to == ToCurrency(svc, to_currency)
    IN  IF from_currency = to
        THEN [rate |-> RateOne, source |-> "same"]
        ELSE IF to = svc.target /\ from_currency \in DOMAIN svc.db_rates
        THEN [rate |-> svc.db_rates[from_currency], source |-> "db"]
        ELSE IF <<from_currency, to>> \in DOMAIN FALLBACK_RATES
        THEN [rate |-> FALLBACK_RATES[<<from_currency, to>>], source |-> "fallback"]
        ELSE [rate |-> RateOne, source |-> "default"]

get_rate(svc, from_currency, to_currency) ==
    RateLookup(svc, from_currency, to_currency).rate

\* the warning get_rate prints when no rate is found: the pair, or nothing
RateWarning(svc, from_currency, to_currency) ==
    IF RateLookup(svc, from_currency, to_currency).source = "default"
    THEN <<<<from_currency, ToCurrency(svc, to_currency)>>>>
    ELSE <<>>

\* FxService.convert: None gives 0.0, else amount * rate
convert(svc, amount, from_currency, to_currency) ==
    IF IsNull(amount) THEN 0
    ELSE Val(amount) * get_rate(svc, from_currency, to_currency)

----------------------------------------------------------------------------
(* PortfolioService *)

\* avg_cost = float(pos['avg_cost']) if pos['avg_cost'] else 0.0
AvgCostOrZero(pos) ==
    IF IsNull(pos.avg_cost) \/ Val(pos.avg_cost) = 0 THEN 0 ELSE Val(pos.avg_cost)

\* (variant: the market price is never looked up)
LatestPrice_CostOnly(pos, market_prices) ==
    AvgCostOrZero(pos)

\* the market price when the ticker is in the dict, else the cost
LatestPrice(pos, market_prices) ==
    IF pos.ticker \in DOMAIN market_prices
    THEN market_prices[pos.ticker].price
    ELSE AvgCostOrZero(pos)

PriceSource(pos, market_prices) ==
    IF pos.ticker \in DOMAIN market_prices THEN "market" ELSE "cost"

\* (variant: the row is typed by its asset class)
SecurityRow_TypedByClass(svc, pos, market_prices) ==
    LET qty == pos.total_qty
        latest_price == LatestPrice(pos, market_prices)
        value_local == qty * latest_price
    IN  [type |-> pos.asset_class, ticker |-> pos.ticker, name |-> pos.name,
         asset_class |-> pos.asset_class, sub_class |-> pos.sub_class,
         currency |-> pos.currency, qty |-> qty,
         avg_cost |-> AvgCostOrZero(pos), latest_price |-> latest_price,
         price_source |-> PriceSource(pos, market_prices),
         value_local |-> value_local,
         value_base |-> convert(svc, Some(value_local), pos.currency, NULL)]

\* one row of _build_security_df
SecurityRow(svc, pos, market_prices) ==
    LET qty == pos.total_qty
        latest_price == LatestPrice(pos, market_prices)
        value_local == qty * latest_price
    IN  [type |-> "SECURITY", ticker |-> pos.ticker, name |-> pos.name,
         asset_class |-> pos.asset_class, sub_class |-> pos.sub_class,
         currency |-> pos.currency, qty |-> qty,
         avg_cost |-> AvgCostOrZero(pos), latest_price |-> latest_price,
         price_source |-> PriceSource(pos, market_prices),
         value_local |-> value_local,
         value_base |-> convert(svc, Some(value_local), pos.currency, NULL)]

build_security_df(svc, positions, market_prices) ==
    MapSeq(positions, LAMBDA pos : SecurityRow(svc, pos, market_prices))

\* (variant: only a zero balance is skipped)
CashKept_NonZero(cb) == cb.balance # 0

\* if balance <= 0: continue
CashKept(cb) == cb.balance > 0

\* one row of _build_cash_df; value_local is the balance, at the price 1.0
CashLineRow(svc, cb) ==
    [type |-> "CASH",
     ticker |-> cb.account_name \o "_" \o cb.currency,
     name |-> cb.account_name \o " cash",
     asset_class |-> "CASH", sub_class |-> cb.currency,
     currency |-> cb.currency, qty |-> cb.balance,
     avg_cost |-> PriceOne, latest_price |-> PriceOne,
     price_source |-> "N/A",
     value_local |-> cb.balance * PriceOne,
     value_base |-> convert(svc, Some(cb.balance * PriceOne), cb.currency, NULL)]

build_cash_df(svc, cash_balances) ==
    MapSeq(SelectSeq(cash_balances, CashKept), LAMBDA cb : CashLineRow(svc, cb))

\* the warnings get_rate printed while the rows were built, in call order
RECURSIVE RowWarnings(_, _)
RowWarnings(svc, currencies) ==
    IF currencies = <<>> THEN <<>>
    ELSE RateWarning(svc, Head(currencies), NULL) \o RowWarnings(svc, Tail(currencies))

\* df.sort_values(['asset_class', 'currency', 'ticker'])
SortKey(row) ==
    <<StrRank(row.asset_class), StrRank(row.currency), StrRank(row.ticker)>>

\* x put into the sorted s behind every row whose key is not greater
InsertSorted(s, x) ==
    LET n == Cardinality({i \in 1..Len(s) : Lex3Leq(SortKey(s[i]), SortKey(x))})
    IN  SubSeq(s, 1, n) \o <<x>> \o SubSeq(s, n + 1, Len(s))

RECURSIVE sort_values(_)
sort_values(df) ==
    IF df = <<>> THEN <<>>
    ELSE InsertSorted(sort_values(SubSeq(df, 1, Len(df) - 1)), df[Len(df)])

\* (variant: the frames are concatenated and left unsorted)
Assemble_Unsorted(security_df, cash_df) ==
    security_df \o cash_df

\* pd.concat([security_df, cash_df]) then sort_values
Assemble(security_df, cash_df) ==
    sort_values(security_df \o cash_df)

\* f'value_{self._base.lower()}'
Lower ==
    [c \in Currencies |->
        CASE c = "CNY" -> "cny" [] c = "USD" -> "usd"
          [] c = "HKD" -> "hkd" [] c = "XYZ" -> "xyz"]

ValueColumn(base_currency) == "value_" \o Lower[base_currency]

\* (variant: an empty frame is built without its columns)
schema_columns_None(base_currency) == {}

\* PortfolioService._schema_columns
schema_columns(base_currency) ==
    {"type", "ticker", "name", "asset_class", "sub_class", "currency", "qty",
     "avg_cost", "latest_price", "price_source", "value_local",
     ValueColumn(base_currency)}

\* the keys of the dict a builder appends for one row
RowColumns(base_currency) ==
    {"type", "ticker", "name", "asset_class", "sub_class", "currency", "qty",
     "avg_cost", "latest_price", "price_source", "value_local",
     ValueColumn(base_currency)}

\* pd.DataFrame(rows) if rows else pd.DataFrame(columns=self._schema_columns())
FrameColumns(rows, base_currency) ==
    IF rows # <<>> THEN RowColumns(base_currency)
    ELSE schema_columns(base_currency)

\* the columns of pd.concat([security_df, cash_df])
ConcatColumns(security_df, cash_df, base_currency) ==
    FrameColumns(security_df, base_currency)
        \cup FrameColumns(cash_df, base_currency)

\* the columns df.sort_values looks up (KeyError when one is missing)
SortColumns == {"asset_class", "currency", "ticker"}

\* PortfolioService.get_full_portfolio on the rows the three queries returned
get_full_portfolio(svc, positions, market_prices, cash_balances) ==
    Assemble(build_security_df(svc, positions, market_prices),
             build_cash_df(svc, cash_balances))

PortfolioWarnings(svc, positions, cash_balances) ==
    RowWarnings(svc, MapSeq(positions, LAMBDA pos : pos.currency))
    \o RowWarnings(svc, MapSeq(SelectSeq(cash_balances, CashKept),
                               LAMBDA cb : cb.currency))

----------------------------------------------------------------------------
(* AnalysisService.get_summary *)

\* a value_base of 1.0, and of 0.01
ValueScale == AmountScale * PriceScale * RateScale
CentUnit == ValueScale \div 100

\* round(x, 2) of a non-negative value_base, in units of 0.01 (half to even)
Round2(v) ==
    LET q == v \div CentUnit
        r == v % CentUnit
    IN  IF 2 * r < CentUnit THEN q
        ELSE IF 2 * r > CentUnit THEN q + 1
        ELSE IF q % 2 = 0 THEN q ELSE q + 1

\* df[col].sum()
SumValue(df) ==
    SumSeq(MapSeq(df, LAMBDA row : row.value_base))

OfType(df, type) ==
    SelectSeq(df, LAMBDA row : row.type = type)

\* (variant: every row that is not market priced is counted)
PriceWarnCount_NotMarket(df) ==
    Len(SelectSeq(df, LAMBDA row : row.price_source # "market"))

\* int((df['price_source'] == 'cost').sum())
PriceWarnCount(df) ==
    Len(SelectSeq(df, LAMBDA row : row.price_source = "cost"))

\* (variant: every line item is counted as a position)
PositionCount_AllRows(df) == Len(df)

\* int(df[df['type'] == 'SECURITY'].shape[0])
PositionCount(df) == Len(OfType(df, "SECURITY"))

get_summary(df, base_currency) ==
    [total_value |-> Round2(SumValue(df)),
     security_value |-> Round2(SumValue(OfType(df, "SECURITY"))),
     cash_value |-> Round2(SumValue(OfType(df, "CASH"))),
     base_currency |-> base_currency,
     position_count |-> PositionCount(df),
     price_warn_count |-> PriceWarnCount(df)]

----------------------------------------------------------------------------
(* AnalysisService distributions.  A distribution is a sequence of records; *)
(* value_base of a distribution row is in units of 0.01 and weight_pct in   *)
(* units of 0.01 percent.  The float arithmetic of the code is modelled     *)
(* exactly: .round(2) is rounding half to even of the exact quotient.       *)

\* display names (the Chinese labels of the source, glossed)
ASSET_CLASS_LABELS ==
    [c \in {"EQUITY", "BOND", "COMMODITY", "REITS", "CASH", "ALTERNATIVE",
            "MULTI", "BENCHMARK"} |->
        CASE c = "EQUITY" -> "Stocks" [] c = "BOND" -> "Bonds"
          [] c = "COMMODITY" -> "Commodities" [] c = "REITS" -> "REITs"
          [] c = "CASH" -> "Cash" [] c = "ALTERNATIVE" -> "Alternatives"
          [] c = "MULTI" -> "Mixed" [] c = "BENCHMARK" -> "Benchmark index"]

CURRENCY_LABELS ==
    [c \in {"CNY", "USD", "HKD", "EUR", "GBP", "JPY"} |->
        CASE c = "CNY" -> "Renminbi (CNY)" [] c = "USD" -> "US dollar (USD)"
          [] c = "HKD" -> "HK dollar (HKD)" [] c = "EUR" -> "Euro (EUR)"
          [] c = "GBP" -> "Pound (GBP)" [] c = "JPY" -> "Yen (JPY)"]

\* series.map(labels).fillna(series)
Label(labels, key) ==
    IF key \in DOMAIN labels THEN labels[key] ELSE key

\* q and the remainder after n more decimal digits of r / d (0 <= r < d)
RECURSIVE DivDigits(_, _, _, _)
DivDigits(q, r, d, n) ==
    IF n = 0 THEN <<q, r>>
    ELSE DivDigits(q * 10 + (r * 10) \div d, (r * 10) % d, d, n - 1)

\* the quotient q with remainder r of a division by d, rounded half to even
HalfEven(q, r, d) ==
    IF 2 * r < d THEN q
    ELSE IF 2 * r > d THEN q + 1
    ELSE IF q % 2 = 0 THEN q ELSE q + 1

\* (variant: the fraction is rounded, the factor 100 forgotten)
WeightPct_Fraction(value, total) ==
    LET qr == DivDigits(value \div total, value % total, total, 2)
    IN  HalfEven(qr[1], qr[2], total)

\* (value / total * 100).round(2), value >= 0 and total > 0 in units of
\* value_base
WeightPct(value, total) ==
    LET qr == DivDigits(value \div total, value % total, total, 4)
    IN  HalfEven(qr[1], qr[2], total)

\* (variant: the weight is taken from the value already rounded)
GroupWeight_FromRounded(value, total) ==
    WeightPct(Round2(value) * CentUnit, total)

\* grp['weight_pct'] = (grp['value'] / total * 100).round(2), before
\* grp['value'] is rounded
GroupWeight(value, total) == WeightPct(value, total)

\* the keys of groupby(col, sort=False): distinct values in order of first
\* appearance
GroupKeys(df, Key(_)) ==
    LET first == {i \in 1..Len(df) :
                    \A j \in 1..(i - 1) : Key(df[j]) # Key(df[i])}
        Nth(k) == CHOOSE i \in first : Cardinality({j \in first : j <= i}) = k
    IN  [k \in 1..Cardinality(first) |-> Key(df[Nth(k)])]

\* x put into s, sorted by value_base descending, behind every row whose
\* value is not smaller
InsertByValue(s, x) ==
    LET n == Cardinality({i \in 1..Len(s) : s[i].value_base >= x.value_base})
    IN  SubSeq(s, 1, n) \o <<x>> \o SubSeq(s, n + 1, Len(s))

\* grp.sort_values('value', ascending=False)
RECURSIVE SortByValueDesc(_)
SortByValueDesc(grp) ==
    IF grp = <<>> THEN <<>>
    ELSE InsertByValue(SortByValueDesc(SubSeq(grp, 1, Len(grp) - 1)),
                       grp[Len(grp)])

\* (variant: a group is flagged only when all its items are cost priced)
HasCostOnly_All(g) ==
    \A i \in 1..Len(g) : g[i].price_source = "cost"

\* lambda s: (s == 'cost').any()
HasCostOnly(g) ==
    \E i \in 1..Len(g) : g[i].price_source = "cost"

\* one row of the asset-class aggregation
AssetClassGroup(df, key, total) ==
    LET g == SelectSeq(df, LAMBDA row : row.asset_class = key)
    IN  [asset_class |-> key,
         value_base |-> Round2(SumValue(g)),
         count |-> Len(g),
         has_cost_only |-> HasCostOnly(g),
         label |-> Label(ASSET_CLASS_LABELS, key),
         weight_pct |-> GroupWeight(SumValue(g), total)]

\* AnalysisService.get_asset_class_distribution
get_asset_class_distribution(df) ==
    LET total == SumValue(df)
    IN  IF total = 0 THEN <<>>
        ELSE SortByValueDesc(
                MapSeq(GroupKeys(df, LAMBDA row : row.asset_class),
                       LAMBDA key : AssetClassGroup(df, key, total)))

\* (variant: only the securities of a group are counted)
CurrencyGroup_CountSecurities(df, key, total) ==
    LET g == SelectSeq(df, LAMBDA row : row.currency = key)
    IN  [currency |-> key,
         value_base |-> Round2(SumValue(g)),
         count |-> Len(OfType(g, "SECURITY")),
         label |-> Label(CURRENCY_LABELS, key),
         weight_pct |-> GroupWeight(SumValue(g), total)]

\* one row of the currency aggregation
CurrencyGroup(df, key, total) ==
    LET g == SelectSeq(df, LAMBDA row : row.currency = key)
    IN  [currency |-> key,
         value_base |-> Round2(SumValue(g)),
         count |-> Len(g),
         label |-> Label(CURRENCY_LABELS, key),
         weight_pct |-> GroupWeight(SumValue(g), total)]

\* AnalysisService.get_currency_distribution
get_currency_distribution(df) ==
    LET total == SumValue(df)
    IN  IF total = 0 THEN <<>>
        ELSE SortByValueDesc(
                MapSeq(GroupKeys(df, LAMBDA row : row.currency),
                       LAMBDA key : CurrencyGroup(df, key, total)))

\* (variant: every line item gets a row)
AccountRows_All(df) == df

\* self._df[self._df['type'] == 'CASH']
AccountRows(df) == OfType(df, "CASH")

\* one row of the account distribution
AccountRow(row, total) ==
    [name |-> row.name, currency |-> row.currency, qty |-> row.qty,
     value_base |-> Round2(row.value_base),
     weight_pct |-> WeightPct(row.value_base, total)]

\* AnalysisService.get_account_distribution
get_account_distribution(df) ==
    LET total == SumValue(df)
    IN  IF total = 0 THEN <<>>
        ELSE MapSeq(AccountRows(df), LAMBDA row : AccountRow(row, total))

----------------------------------------------------------------------------
(* What the store can hold in the model *)

\* rows of tb_transactions appended while the engine is exercised
EngineTxs ==
    { Tx(1, "BUY", 1, Some(1), Some(2), Some(100), -300, "USD"),
      Tx(2, "BUY", 2, Some(2), Some(3), Some(50), -150, "XYZ"),
      Tx(2, "SELL", 1, Some(1), Some(-1), Some(120), 120, "USD"),
      Tx(1, "DEPOSIT", 1, NULL, NULL, NULL, 500, "USD"),
      Tx(2, "DEPOSIT", 2, NULL, NULL, NULL, 400, "CNY") }

\* rows of tb_transactions appended while the analyzer is exercised; the last
\* one books shares received at no cost
AnalysisTxs ==
    { Tx(1, "BUY", 1, Some(1), Some(2), Some(100), -300, "USD"),
      Tx(2, "BUY", 2, Some(2), Some(3), Some(50), -150, "XYZ"),
      Tx(1, "BUY", 1, Some(3), Some(2), Some(100), -200, "HKD"),
      Tx(1, "DEPOSIT", 1, NULL, NULL, NULL, 500, "USD"),
      Tx(2, "DEPOSIT", 2, NULL, NULL, NULL, 400, "CNY"),
      Tx(1, "BUY", 1, Some(1), Some(2), Some(0), 0, "USD") }

\* rows of tb_transactions appended while the repository queries are exercised
RepoTxs ==
    { Tx(1, "BUY", 1, Some(1), Some(1), Some(1000), -100, "USD"),
      Tx(2, "BUY", 1, Some(1), Some(1), Some(2000), -200, "USD"),
      Tx(2, "BUY", 1, Some(1), Some(2), Some(1000), -201, "USD"),
      Tx(2, "SELL", 1, Some(1), Some(-1), Some(1500), 150, "USD"),
      Tx(1, "SELL", 2, Some(2), Some(-1), Some(40), 40, "HKD"),
      Tx(2, "BUY", 2, Some(2), Some(3), Some(30), -90, "HKD"),
      Tx(1, "DIVIDEND", 1, Some(1), Some(5), NULL, 101, "USD"),
      Tx(2, "FEE", 1, NULL, NULL, NULL, -1, "USD"),
      Tx(1, "DEPOSIT", 2, NULL, NULL, NULL, 300, "CNY") }

\* rows of tb_market_data
PriceRows ==
    { [asset_id |-> 1, date |-> 1, close_price |-> 120] }

\* rows of tb_market_data while the price query is exercised
MarketRows ==
    { [asset_id |-> 1, date |-> 1, close_price |-> 120],
      [asset_id |-> 1, date |-> 2, close_price |-> 130],
      [asset_id |-> 2, date |-> 1, close_price |-> 55] }

\* rows of tb_transactions while the price query is exercised
PriceTxs ==
    { Tx(1, "BUY", 1, Some(1), Some(2), Some(100), -300, "USD"),
      Tx(1, "BUY", 1, Some(3), Some(2), Some(100), -200, "HKD"),
      Tx(2, "BUY", 2, Some(2), Some(3), Some(50), -150, "XYZ") }

\* rows of tb_exchange_rates
RateRows ==
    { [from_currency |-> "USD", to_currency |-> "CNY", date |-> 1, rate |-> 7100] }

FxRateRows ==
    { [from_currency |-> "USD", to_currency |-> "CNY", date |-> 1, rate |-> 7100],
      [from_currency |-> "USD", to_currency |-> "CNY", date |-> 2, rate |-> 7300],
      [from_currency |-> "HKD", to_currency |-> "CNY", date |-> 1, rate |-> 920],
      [from_currency |-> "HKD", to_currency |-> "USD", date |-> 1, rate |-> 128],
      [from_currency |-> "USD", to_currency |-> "USD", date |-> 1, rate |-> 999] }

\* the queries of one get_full_portfolio call, in the order it issues them
Queries == {"positions", "market_prices", "cash_balances"}

----------------------------------------------------------------------------
(* What an operation hands back *)

EmptyPrices == [tk \in {} |-> 0]

NoSummary ==
    [total_value |-> 0, security_value |-> 0, cash_value |-> 0,
     base_currency |-> "", position_count |-> 0, price_warn_count |-> 0]

\* op: the operation; raised: it ended in an exception; returned: the value
\* it returned (NULL when it raised or returns nothing); columns: the columns
\* of the returned DataFrame; snapshot: the DataFrame an AnalysisService was
\* built on; the other fields are the inputs and the local values of the call.
\* queries: the store queries the call issued; analyzer: the AnalysisService
\* object in use; first: what each of its methods returned when first called;
\* repeated: one of them has been called again; session: the with-block of
\* Database.session() in progress
NoResult ==
    [op |-> "none", raised |-> FALSE, returned |-> NULL, as_of_date |-> NULL,
     failed_query |-> "", from_currency |-> "", to_currency |-> NULL,
     positions |-> <<>>, market_prices |-> EmptyPrices, cash_balances |-> <<>>,
     warnings |-> <<>>, snapshot |-> <<>>, columns |-> {},
     queries |-> 0, analyzer |-> <<>>, first |-> <<>>, repeated |-> FALSE,
     session |-> <<>>]

----------------------------------------------------------------------------
(* The state machine *)

Init ==
    /\ ledger = <<>>
    /\ prices = {}
    /\ rates = {}
    /\ fx = NoService
    /\ result = NoResult

\* TransactionRepository.add_transaction: one INSERT INTO tb_transactions
AddTransaction(tx) ==
    /\ Len(ledger) < MaxTx
    /\ ledger' = Append(ledger, tx)
    /\ result' = NoResult
    /\ UNCHANGED <<prices, rates, fx>>

\* a new row of tb_market_data (written by a collaborator of the engine)
AddMarketPrice(r) ==
    /\ r \notin prices
    /\ prices' = prices \cup {r}
    /\ result' = NoResult
    /\ UNCHANGED <<ledger, rates, fx>>

\* a new row of tb_exchange_rates (written by a collaborator of the engine)
AddExchangeRate(r) ==
    /\ r \notin rates
    /\ rates' = rates \cup {r}
    /\ result' = NoResult
    /\ UNCHANGED <<ledger, prices, fx>>

\* PortfolioService.__init__ / FxService.__init__: the rates are loaded once,
\* and a failing rate query is caught inside _load_from_db
NewService(base_currency, load_failed) ==
    /\ \E loaded \in get_latest_exchange_rates(rates, base_currency) :
            fx' = FxService(base_currency, loaded, load_failed)
    /\ result' = [NoResult EXCEPT !.op = "new_service",
                                  !.failed_query = IF load_failed
                                                   THEN "exchange_rates" ELSE ""]
    /\ UNCHANGED <<ledger, prices, rates>>

\* (variant: the engine keeps the rows of its last snapshot and serves them
\* again)
GetFullPortfolio_Cached(as_of_date) ==
    /\ fx.loaded
    /\ \E market_prices \in get_latest_market_prices(prices) :
        LET cached == result.op = "get_full_portfolio" /\ ~result.raised
            positions == IF cached THEN result.positions
                         ELSE get_positions(ledger, as_of_date)
            cash_balances == IF cached THEN result.cash_balances
                             ELSE get_cash_balances(ledger, as_of_date)
        IN  result' = [NoResult EXCEPT
                !.op = "get_full_portfolio",
                !.as_of_date = as_of_date,
                !.positions = positions,
                !.market_prices = market_prices,
                !.cash_balances = cash_balances,
                !.warnings = PortfolioWarnings(fx, positions, cash_balances),
                !.columns = RowColumns(fx.target),
                !.returned = Some(get_full_portfolio(fx, positions, market_prices,
                                                     cash_balances))]
    /\ UNCHANGED <<ledger, prices, rates, fx>>

\* PortfolioService.get_full_portfolio with every query answering;
\* sort_values raises KeyError on a frame without the sort columns
GetFullPortfolio(as_of_date) ==
    /\ fx.loaded
    /\ \E market_prices \in get_latest_market_prices(prices) :
        LET positions == get_positions(ledger, as_of_date)
            cash_balances == get_cash_balances(ledger, as_of_date)
            columns == ConcatColumns(
                           build_security_df(fx, positions, market_prices),
                           build_cash_df(fx, cash_balances), fx.target)
        IN  result' =
              IF SortColumns \subseteq columns
              THEN [NoResult EXCEPT
                !.op = "get_full_portfolio",
                !.as_of_date = as_of_date,
                !.positions = positions,
                !.market_prices = market_prices,
                !.cash_balances = cash_balances,
                !.warnings = PortfolioWarnings(fx, positions, cash_balances),
                !.columns = columns,
                !.queries = 3,
                !.returned = Some(get_full_portfolio(fx, positions, market_prices,
                                                     cash_balances))]
              ELSE [NoResult EXCEPT
                !.op = "get_full_portfolio",
                !.as_of_date = as_of_date,
                !.queries = 3,
                !.raised = TRUE]
    /\ UNCHANGED <<ledger, prices, rates, fx>>

\* (variant: a failing cash query is swallowed and the securities returned)
GetFullPortfolioFails_Partial(as_of_date, q) ==
    /\ fx.loaded
    /\ \E market_prices \in get_latest_market_prices(prices) :
        LET positions == get_positions(ledger, as_of_date)
        IN  result' = [NoResult EXCEPT
                !.op = "get_full_portfolio",
                !.raised = (q # "cash_balances"),
                !.failed_query = q,
                !.returned = IF q = "cash_balances"
                             THEN Some(get_full_portfolio(fx, positions,
                                                          market_prices, <<>>))
                             ELSE NULL]
    /\ UNCHANGED <<ledger, prices, rates, fx>>

\* PortfolioService.get_full_portfolio with query q raising: nothing catches
\* the exception between cursor.execute and the caller, who gets no value
GetFullPortfolioFails(as_of_date, q) ==
    /\ fx.loaded
    /\ result' = [NoResult EXCEPT
            !.op = "get_full_portfolio",
            !.raised = TRUE,
            !.failed_query = q]
    /\ UNCHANGED <<ledger, prices, rates, fx>>

\* AnalysisService(portfolio_df, base_currency) on the snapshot just
\* returned, then one method of it; __init__ raises ValueError when the
\* value column is missing
Analyse(op, value) ==
    /\ result.op = "get_full_portfolio"
    /\ ~result.raised
    /\ result' =
          IF ValueColumn(fx.target) \in result.columns
          THEN [result EXCEPT
                    !.op = op,
                    !.snapshot = Val(result.returned),
                    !.returned = Some(value)]
          ELSE [result EXCEPT
                    !.op = op,
                    !.snapshot = Val(result.returned),
                    !.raised = TRUE,
                    !.returned = NULL]
    /\ UNCHANGED <<ledger, prices, rates, fx>>

\* AnalysisService(portfolio_df).get_summary()
GetSummary ==
    Analyse("get_summary",
            IF result.returned = NULL THEN NoSummary
            ELSE get_summary(Val(result.returned), fx.target))

\* AnalysisService(portfolio_df).get_asset_class_distribution()
GetAssetClassDistribution ==
    Analyse("get_asset_class_distribution",
            IF result.returned = NULL THEN <<>>
            ELSE get_asset_class_distribution(Val(result.returned)))

\* AnalysisService(portfolio_df).get_currency_distribution()
GetCurrencyDistribution ==
    Analyse("get_currency_distribution",
            IF result.returned = NULL THEN <<>>
            ELSE get_currency_distribution(Val(result.returned)))

\* AnalysisService(portfolio_df).get_account_distribution()
GetAccountDistribution ==
    Analyse("get_account_distribution",
            IF result.returned = NULL THEN <<>>
            ELSE get_account_distribution(Val(result.returned)))

\* The methods of one AnalysisService object, which can be called again and
\* again in any order
AnalyzerMethods ==
    {"get_asset_class_distribution", "get_currency_distribution",
     "get_account_distribution", "get_summary"}

NoCalls == [m \in AnalyzerMethods |-> NULL]

\* AnalysisService.__init__: self._df = portfolio_df.copy() is a frame of its
\* own (own), with the rows and columns of the frame passed in
AnalysisService(portfolio_df, columns, base_currency) ==
    [df |-> portfolio_df, columns |-> columns, base |-> base_currency,
     own |-> TRUE]

\* (variant: the weight and the rounded value are written into self._df)
AfterAccountDistribution_InPlace(analyzer) ==
    [analyzer EXCEPT
        !.df = [i \in 1..Len(@) |->
                    IF @[i].type = "CASH"
                    THEN [@[i] EXCEPT !.value_base = Round2(@) * CentUnit]
                    ELSE @[i]],
        !.columns = @ \cup {"weight_pct"}]

\* the object after get_account_distribution: lines 145-146 assign weight_pct
\* and the rounded value to cash_df, which line 144 made a copy of the CASH
\* rows, so self._df is not written
AfterAccountDistribution(analyzer) == analyzer

\* portfolio_df = service.get_full_portfolio(); AnalysisService(portfolio_df):
\* the caller keeps portfolio_df (snapshot, columns)
NewAnalysis ==
    /\ result.op = "get_full_portfolio"
    /\ ~result.raised
    /\ result' =
          IF ValueColumn(fx.target) \in result.columns
          THEN [result EXCEPT
                    !.op = "new_analysis",
                    !.snapshot = Val(result.returned),
                    !.analyzer = AnalysisService(Val(result.returned),
                                                 result.columns, fx.target),
                    !.first = NoCalls,
                    !.returned = NULL]
          ELSE [result EXCEPT
                    !.op = "new_analysis",
                    !.snapshot = Val(result.returned),
                    !.raised = TRUE,
                    !.returned = NULL]
    /\ UNCHANGED <<ledger, prices, rates, fx>>

\* one method call on the object: it returns value and leaves the object as
\* after; a write to a self._df that is not a frame of its own is a write to
\* the caller's frame.  No method has a connection to issue a query on.
Method(op, value, after) ==
    /\ result.op \in AnalyzerMethods \cup {"new_analysis"}
    /\ ~result.raised
    /\ result' = [result EXCEPT
            !.op = op,
            !.returned = Some(value),
            !.analyzer = after,
            !.snapshot = IF after.own THEN @ ELSE after.df,
            !.columns = IF after.own THEN @ ELSE after.columns,
            !.first = IF @[op] = NULL THEN [@ EXCEPT ![op] = Some(value)] ELSE @,
            !.repeated = @ \/ result.first[op] # NULL]
    /\ UNCHANGED <<ledger, prices, rates, fx>>

\* analyzer.get_asset_class_distribution()
ByAssetClass ==
    Method("get_asset_class_distribution",
           IF result.analyzer = <<>> THEN <<>>
           ELSE get_asset_class_distribution(result.analyzer.df),
           result.analyzer)

\* analyzer.get_currency_distribution()
ByCurrency ==
    Method("get_currency_distribution",
           IF result.analyzer = <<>> THEN <<>>
           ELSE get_currency_distribution(result.analyzer.df),
           result.analyzer)

\* analyzer.get_account_distribution()
ByAccount ==
    Method("get_account_distribution",
           IF result.analyzer = <<>> THEN <<>>
           ELSE get_account_distribution(result.analyzer.df),
           IF result.analyzer = <<>> THEN <<>>
           ELSE AfterAccountDistribution(result.analyzer))

\* analyzer.get_summary()
Summary ==
    Method("get_summary",
           IF result.analyzer = <<>> THEN NoSummary
           ELSE get_summary(result.analyzer.df, result.analyzer.base),
           result.analyzer)

\* Database.session().  pc: where the generator stands ("body": suspended at
\* the yield, "commit", "rollback", "close", "done"); body: how the with-block
\* ended; calls: the calls made on the connection, in order; pending: the
\* rows inserted and not committed; exc: the exception in flight, named by
\* what raised it.
NoSession ==
    [pc |-> "done", connected |-> FALSE, body |-> "", calls |-> <<>>,
     pending |-> <<>>, exc |-> NULL]

InSession(pc) ==
    result.op = "session" /\ result.session.pc = pc

BodyOutcomes == {"ok", "Exception", "BaseException"}

\* where the generator goes when the with-block ends: past the yield to
\* conn.commit(); into except Exception; or, for an exception that is no
\* Exception (KeyboardInterrupt, SystemExit), straight to finally
AfterYield(outcome) ==
    CASE outcome = "ok" -> "commit"
      [] outcome = "Exception" -> "rollback"
      [] OTHER -> "close"

\* (variant: conn.commit() stands after the try statement)
AfterCommit_Unguarded(ok) == "close"

\* conn.commit() is inside the try: when it raises, except Exception runs
AfterCommit(ok) == IF ok THEN "close" ELSE "rollback"

\* with db.session() as conn: get_connection() returns a connection, or
\* raises before the try statement is entered
EnterSession(connects) ==
    /\ result.op = "session" => result.session.pc = "done"
    /\ result' =
          IF connects
          THEN [NoResult EXCEPT
                    !.op = "session",
                    !.session = [NoSession EXCEPT !.pc = "body",
                                                  !.connected = TRUE]]
          ELSE [NoResult EXCEPT
                    !.op = "session",
                    !.raised = TRUE,
                    !.session = [NoSession EXCEPT !.exc = Some("connect")]]
    /\ UNCHANGED <<ledger, prices, rates, fx>>

\* the with-block runs TransactionRepository.add_transaction on conn: the row
\* is inserted in the open transaction
BodyAddTransaction(tx) ==
    /\ InSession("body")
    /\ Len(ledger) + Len(result.session.pending) < MaxTx
    /\ result' = [result EXCEPT !.session.pending = Append(@, tx)]
    /\ UNCHANGED <<ledger, prices, rates, fx>>

\* the with-block ends: normally, or with an exception thrown into the
\* generator at the yield
BodyEnds(outcome) ==
    /\ InSession("body")
    /\ result' = [result EXCEPT
            !.session.body = outcome,
            !.session.exc = IF outcome = "ok" THEN NULL ELSE Some("body"),
            !.session.pc = AfterYield(outcome)]
    /\ UNCHANGED <<ledger, prices, rates, fx>>

\* conn.commit(): the pending rows are stored, or the call raises
Commit(ok) ==
    /\ InSession("commit")
    /\ result' = [result EXCEPT
            !.session.calls = Append(@, "commit"),
            !.session.pending = IF ok THEN <<>> ELSE @,
            !.session.exc = IF ok THEN @ ELSE Some("commit"),
            !.session.pc = AfterCommit(ok)]
    /\ ledger' = IF ok THEN ledger \o result.session.pending ELSE ledger
    /\ UNCHANGED <<prices, rates, fx>>

\* except Exception as e: conn.rollback(); print; raise e.  When rollback
\* raises, its exception is the one in flight
Rollback(ok) ==
    /\ InSession("rollback")
    /\ result' = [result EXCEPT
            !.session.calls = Append(@, "rollback"),
            !.session.pending = IF ok THEN <<>> ELSE @,
            !.session.exc = IF ok THEN @ ELSE Some("rollback"),
            !.session.pc = "close"]
    /\ UNCHANGED <<ledger, prices, rates, fx>>

\* finally: conn.close(), which drops what was not committed; then the
\* exception in flight, if any, reaches the caller
Close ==
    /\ InSession("close")
    /\ result' = [result EXCEPT
            !.session.calls = Append(@, "close"),
            !.session.pending = <<>>,
            !.session.pc = "done",
            !.raised = result.session.exc # NULL]
    /\ UNCHANGED <<ledger, prices, rates, fx>>

\* PortfolioRepository.get_latest_market_prices called on its own
GetLatestMarketPrices ==
    /\ \E market_prices \in get_latest_market_prices(prices) :
        result' = [NoResult EXCEPT
            !.op = "get_latest_market_prices",
            !.returned = Some(market_prices)]
    /\ UNCHANGED <<ledger, prices, rates, fx>>

\* PortfolioRepository.get_positions called on its own
GetPositions(as_of_date) ==
    /\ result' = [NoResult EXCEPT
            !.op = "get_positions",
            !.as_of_date = as_of_date,
            !.returned = Some(get_positions(ledger, as_of_date))]
    /\ UNCHANGED <<ledger, prices, rates, fx>>

\* PortfolioRepository.get_cash_balances called on its own
GetCashBalances(as_of_date) ==
    /\ result' = [NoResult EXCEPT
            !.op = "get_cash_balances",
            !.as_of_date = as_of_date,
            !.returned = Some(get_cash_balances(ledger, as_of_date))]
    /\ UNCHANGED <<ledger, prices, rates, fx>>

\* FxService.get_rate called on its own
GetRate(from_currency, to_currency) ==
    /\ fx.loaded
    /\ result' = [NoResult EXCEPT
            !.op = "get_rate",
            !.from_currency = from_currency,
            !.to_currency = to_currency,
            !.warnings = RateWarning(fx, from_currency, to_currency),
            !.returned = Some(get_rate(fx, from_currency, to_currency))]
    /\ UNCHANGED <<ledger, prices, rates, fx>>

\* The engine: the store is filled while services are built and asked for
\* snapshots and summaries
Next ==
    \/ \E tx \in EngineTxs : AddTransaction(tx)
    \/ \E r \in PriceRows : AddMarketPrice(r)
    \/ \E r \in RateRows : AddExchangeRate(r)
    \/ \E load_failed \in BOOLEAN : NewService("CNY", load_failed)
    \/ \E d \in AsOfDates : GetFullPortfolio(d)
    \/ \E d \in AsOfDates, q \in Queries : GetFullPortfolioFails(d, q)
    \/ GetSummary

Spec == Init /\ [][Next]_vars

\* The analyzer: current snapshots are taken while the ledger and the price
\* table grow, and each is handed to an AnalysisService
NextAnalysis ==
    \/ \E tx \in AnalysisTxs : AddTransaction(tx)
    \/ \E r \in PriceRows : AddMarketPrice(r)
    \/ NewService("CNY", FALSE)
    \/ GetFullPortfolio(NULL)
    \/ GetSummary
    \/ GetAssetClassDistribution
    \/ GetCurrencyDistribution
    \/ GetAccountDistribution

SpecAnalysis == Init /\ [][NextAnalysis]_vars

\* rows of tb_transactions appended while one analyzer is called repeatedly
ReadOnlyTxs ==
    { Tx(1, "BUY", 1, Some(1), Some(2), Some(100), -300, "USD"),
      Tx(1, "DEPOSIT", 1, NULL, NULL, NULL, 500, "USD"),
      Tx(2, "DEPOSIT", 2, NULL, NULL, NULL, 400, "CNY") }

\* One analyzer object: a snapshot is taken, an AnalysisService is built on
\* it and its four methods are called any number of times in any order
NextReadOnly ==
    \/ \E tx \in ReadOnlyTxs : AddTransaction(tx)
    \/ \E r \in PriceRows : AddMarketPrice(r)
    \/ NewService("CNY", FALSE)
    \/ GetFullPortfolio(NULL)
    \/ NewAnalysis
    \/ ByAssetClass
    \/ ByCurrency
    \/ ByAccount
    \/ Summary

SpecReadOnly == Init /\ [][NextReadOnly]_vars

\* The price resolver: the price table and the ledger grow while the latest
\* prices are asked for and snapshots are taken as of any date
NextPrices ==
    \/ \E tx \in PriceTxs : AddTransaction(tx)
    \/ \E r \in MarketRows : AddMarketPrice(r)
    \/ NewService("CNY", FALSE)
    \/ GetLatestMarketPrices
    \/ \E d \in AsOfDates : GetFullPortfolio(d)

SpecPrices == Init /\ [][NextPrices]_vars

\* rows of tb_transactions with totals and balances at and around the
\* thresholds 0.0001 and 0.01
ThresholdTxs ==
    { Tx(1, "BUY", 1, Some(1), Some(2), Some(100), -300, "USD"),
      Tx(1, "BUY", 1, Some(3), Some(1), Some(100), -100, "HKD"),
      Tx(2, "SELL", 1, Some(1), Some(-2), Some(120), 300, "USD"),
      Tx(1, "DEPOSIT", 2, NULL, NULL, NULL, 101, "CNY"),
      Tx(2, "DEPOSIT", 2, NULL, NULL, NULL, 100, "CNY"),
      Tx(2, "WITHDRAW", 2, NULL, NULL, NULL, -101, "CNY") }

\* The line items: snapshots as of any date over ledgers whose totals and
\* balances are positive, zero, negative or at a threshold
NextThresholds ==
    \/ \E tx \in ThresholdTxs : AddTransaction(tx)
    \/ NewService("CNY", FALSE)
    \/ \E d \in AsOfDates : GetFullPortfolio(d)

SpecThresholds == Init /\ [][NextThresholds]_vars

\* The position calculator: the ledger grows while the two repository
\* queries are asked
NextRepo ==
    \/ \E tx \in RepoTxs : AddTransaction(tx)
    \/ \E d \in AsOfDates : GetPositions(d)
    \/ \E d \in AsOfDates : GetCashBalances(d)

SpecRepo == Init /\ [][NextRepo]_vars

\* The rate resolver: the rate table grows while resolvers are built for a
\* target currency and asked for rates
FxTargets == {"CNY", "USD"}

NextFx ==
    \/ \E r \in FxRateRows : AddExchangeRate(r)
    \/ \E t \in FxTargets, load_failed \in BOOLEAN : NewService(t, load_failed)
    \/ \E c \in Currencies, to \in {NULL} \cup {Some(t) : t \in Currencies} :
            GetRate(c, to)

SpecFx == Init /\ [][NextFx]_vars

\* rows of tb_exchange_rates, two of them for USD -> CNY on the same date
TiedRateRows ==
    { [from_currency |-> "USD", to_currency |-> "CNY", date |-> 1, rate |-> 7100],
      [from_currency |-> "USD", to_currency |-> "CNY", date |-> 2, rate |-> 7300],
      [from_currency |-> "USD", to_currency |-> "CNY", date |-> 2, rate |-> 7350],
      [from_currency |-> "HKD", to_currency |-> "CNY", date |-> 1, rate |-> 920],
      [from_currency |-> "HKD", to_currency |-> "CNY", date |-> 2, rate |-> 915],
      [from_currency |-> "HKD", to_currency |-> "USD", date |-> 2, rate |-> 128] }

\* The rate loader: the rate table grows while resolvers are built, each
\* loading the latest rates to its target, and asked for rates
NextRates ==
    \/ \E r \in TiedRateRows : AddExchangeRate(r)
    \/ \E t \in FxTargets, load_failed \in BOOLEAN : NewService(t, load_failed)
    \/ \E c \in {"USD", "HKD"} : GetRate(c, NULL)

SpecRates == Init /\ [][NextRates]_vars

\* rows inserted inside a session
SessionTxs ==
    { Tx(1, "DEPOSIT", 1, NULL, NULL, NULL, 500, "USD"),
      Tx(2, "BUY", 1, Some(1), Some(2), Some(100), -300, "USD") }

\* The transaction scope: sessions are entered one after the other; each
\* runs its with-block and leaves through commit, rollback and close
NextSession ==
    \/ \E connects \in BOOLEAN : EnterSession(connects)
    \/ \E tx \in SessionTxs : BodyAddTransaction(tx)
    \/ \E outcome \in BodyOutcomes : BodyEnds(outcome)
    \/ \E ok \in BOOLEAN : Commit(ok)
    \/ \E ok \in BOOLEAN : Rollback(ok)
    \/ Close

SpecSession == Init /\ [][NextSession]_vars

----------------------------------------------------------------------------
(* Reference definitions used by the properties: sums written over the     *)
(* indices of the ledger, independent of the query operators                *)

RECURSIVE SumIdx(_, _)
SumIdx(I, f) ==
    IF I = {} THEN 0
    ELSE LET i == CHOOSE j \in I : TRUE
         IN  f[i] + SumIdx(I \ {i}, f)

OnOrBefore(t, as_of_date) ==
    as_of_date = NULL \/ t.date <= as_of_date[1]

\* indices of the BUY/SELL rows of asset a with a quantity, up to the date
TradeIdx(L, as_of_date, a) ==
    {i \in 1..Len(L) : /\ L[i].asset_id = <<a>>
                       /\ L[i].type \in {"BUY", "SELL"}
                       /\ L[i].qty # NULL
                       /\ OnOrBefore(L[i], as_of_date)}

BuyIdx(L, as_of_date, a) ==
    {i \in TradeIdx(L, as_of_date, a) : L[i].qty[1] > 0}

\* indices of all rows of the (account, currency) group, up to the date
FlowIdx(L, as_of_date, acc, cur) ==
    {i \in 1..Len(L) : /\ L[i].account_id = acc
                       /\ L[i].currency = cur
                       /\ OnOrBefore(L[i], as_of_date)}

QtyAt(L) == [i \in 1..Len(L) |-> IF L[i].qty = NULL THEN 0 ELSE L[i].qty[1]]
CostAt(L) ==
    [i \in 1..Len(L) |->
        IF L[i].qty = NULL \/ L[i].price = NULL THEN 0 ELSE L[i].qty[1] * L[i].price[1]]
FlowAt(L) == [i \in 1..Len(L) |-> L[i].cash_flow]

\* the rows of a returned sequence that satisfy P
RowsWhere(df, P(_)) == {i \in 1..Len(df) : P(df[i])}

ReturnedSnapshot ==
    result.op = "get_full_portfolio" /\ ~result.raised

----------------------------------------------------------------------------
(* C1 *)

\* C1: in a returned snapshot every Position has exactly one SECURITY line
\* item; its unit price is the market price and its source "market" when the
\* ticker is in the price map, else the average cost (0 when that is NULL)
\* and "cost"; value_local = qty * unit price and value_base = value_local *
\* rate(position currency -> reporting currency).
C1_SecurityValuation ==
    ReturnedSnapshot =>
        LET df == Val(result.returned)
            sec == RowsWhere(df, LAMBDA row : row.type = "SECURITY")
        IN  /\ Cardinality(sec) = Len(result.positions)
            /\ \A k \in 1..Len(result.positions) :
                LET pos == result.positions[k]
                    own == {i \in sec : df[i].ticker = pos.ticker}
                IN  /\ Cardinality(own) = 1
                    /\ \A i \in own :
                        /\ df[i].qty = pos.total_qty
                        /\ IF pos.ticker \in DOMAIN result.market_prices
                           THEN /\ df[i].latest_price =
                                        result.market_prices[pos.ticker].price
                                /\ df[i].price_source = "market"
                           ELSE /\ df[i].latest_price =
                                        (IF pos.avg_cost = NULL THEN 0
                                         ELSE pos.avg_cost[1])
                                /\ df[i].price_source = "cost"
                        /\ df[i].value_local = df[i].qty * df[i].latest_price
                        /\ df[i].value_base =
                                df[i].value_local
                                * get_rate(fx, pos.currency, Some(fx.target))

\* a snapshot with ABC valued at its market price 12.0 (0.0002 x 12.0 at the
\* fallback rate 7.25) beside XBD valued at its cost 5.0
C1_Witness ==
    /\ ReturnedSnapshot
    /\ \E i, j \in 1..Len(Val(result.returned)) :
        LET df == Val(result.returned)
        IN  /\ df[i].ticker = "ABC" /\ df[i].price_source = "market"
            /\ df[i].qty = 2 /\ df[i].latest_price = 120
            /\ df[i].value_local = 240 /\ df[i].value_base = 240 * 7250
            /\ df[j].ticker = "XBD" /\ df[j].price_source = "cost"
            /\ df[j].latest_price = 50 /\ df[j].value_local = 150

----------------------------------------------------------------------------
(* C2 *)

\* C2: get_cash_balances returns, for every (account, currency) group, the
\* sum of cash_flow over all the group's transactions of any type that pass
\* the date filter, and has a row for the group exactly when the absolute
\* value of that sum exceeds 0.01.
C2_CashBalances ==
    result.op = "get_cash_balances" =>
        LET out == Val(result.returned)
        IN  \A acc \in DOMAIN Accounts, cur \in Currencies :
                LET bal == SumIdx(FlowIdx(ledger, result.as_of_date, acc, cur),
                                  FlowAt(ledger))
                    own == RowsWhere(out, LAMBDA cb : cb.account_id = acc
                                                     /\ cb.currency = cur)
                IN  /\ Cardinality(own) = (IF Abs(bal) > CashEps THEN 1 ELSE 0)
                    /\ \A i \in own : out[i].balance = bal

\* a group whose balance -0.0202 adds a BUY and a FEE is returned, while a
\* group with the balance 0.004 is not
C2_Witness ==
    /\ result.op = "get_cash_balances"
    /\ \E i \in 1..Len(Val(result.returned)) :
            /\ Val(result.returned)[i].balance = -202
            /\ \E j, k \in 1..Len(ledger) :
                    ledger[j].type = "BUY" /\ ledger[k].type = "FEE"
    /\ \E j \in 1..Len(ledger) :
            /\ ledger[j].currency = "HKD" /\ ledger[j].cash_flow = 40
            /\ \A i \in 1..Len(Val(result.returned)) :
                    Val(result.returned)[i].currency # "HKD"

----------------------------------------------------------------------------
(* C3 *)

\* C3: get_positions returns, for every asset, total_qty = the sum of qty
\* over the asset's BUY and SELL transactions with a quantity that pass the
\* date filter, and has a row for the asset exactly when that sum exceeds
\* 0.0001.
C3_Positions ==
    result.op = "get_positions" =>
        LET out == Val(result.returned)
        IN  \A a \in DOMAIN Assets :
                LET total == SumIdx(TradeIdx(ledger, result.as_of_date, a),
                                    QtyAt(ledger))
                    own == RowsWhere(out, LAMBDA pos : pos.asset_id = a)
                IN  /\ Cardinality(own) = (IF total > QtyEps THEN 1 ELSE 0)
                    /\ \A i \in own : out[i].total_qty = total

\* ABC is held with 0.0002 although the ledger also has a DIVIDEND row with
\* a quantity for it
C3_Witness ==
    /\ result.op = "get_positions"
    /\ \E i \in 1..Len(Val(result.returned)) :
            /\ Val(result.returned)[i].ticker = "ABC"
            /\ Val(result.returned)[i].total_qty = 2
    /\ \E j \in 1..Len(ledger) :
            /\ ledger[j].type = "DIVIDEND" /\ ledger[j].qty = Some(5)
            /\ OnOrBefore(ledger[j], result.as_of_date)

----------------------------------------------------------------------------
(* C4 *)

\* the two BUY rows of the example: 10 @ 100 and 10 @ 200
C4_Example ==
    << Tx(1, "BUY", 1, Some(1), Some(10 * AmountScale), Some(100 * PriceScale),
          -1000, "USD"),
       Tx(1, "BUY", 1, Some(1), Some(10 * AmountScale), Some(200 * PriceScale),
          -2000, "USD") >>

\* C4: every returned position has avg_cost = N / D, with N the sum of
\* qty * price and D the sum of qty over the asset's filtered rows with
\* qty > 0 (to the nearest unit, and exactly when D divides N); a group whose
\* D is zero gets a NULL avg_cost; 10 @ 100 and 10 @ 200 give exactly 150.
C4_AvgCost ==
    /\ AvgCost(C4_Example) = Some(150 * PriceScale)
    /\ result.op = "get_positions" =>
        LET out == Val(result.returned)
            N(a) == SumIdx(BuyIdx(ledger, result.as_of_date, a), CostAt(ledger))
            D(a) == SumIdx(BuyIdx(ledger, result.as_of_date, a), QtyAt(ledger))
        IN  /\ \A i \in 1..Len(out) :
                LET a == out[i].asset_id
                IN  /\ D(a) > 0
                    /\ out[i].avg_cost # NULL
                    /\ 2 * Abs(out[i].avg_cost[1] * D(a) - N(a)) <= D(a)
                    /\ (N(a) % D(a) = 0 => out[i].avg_cost[1] * D(a) = N(a))
            /\ \A a \in DOMAIN Assets :
                D(a) = 0 =>
                    PositionRecord(ledger, result.as_of_date, a).avg_cost = NULL

\* XBD bought 0.0003 @ 3.0 and sold 0.0001 @ 4.0 keeps the cost 3.0, the sell
\* left out; ABC has only a sell, so its denominator is zero and its cost NULL
C4_Witness ==
    /\ result.op = "get_positions"
    /\ \E i \in 1..Len(Val(result.returned)) :
            /\ Val(result.returned)[i].ticker = "XBD"
            /\ Val(result.returned)[i].total_qty = 2
            /\ Val(result.returned)[i].avg_cost = Some(30)
    /\ TradeIdx(ledger, result.as_of_date, 1) # {}
    /\ BuyIdx(ledger, result.as_of_date, 1) = {}
    /\ PositionRecord(ledger, result.as_of_date, 1).avg_cost = NULL

----------------------------------------------------------------------------
(* C5 *)

\* the ledger restricted to the transactions dated d or earlier
UpTo(L, d) == SelectSeq(L, LAMBDA t : t.date <= d)

\* the (ticker, qty) pairs of a snapshot, in order
Quantities(df) == [i \in 1..Len(df) |-> <<df[i].ticker, df[i].qty>>]

C5_State ==
    /\ \A d \in Dates :
        /\ get_positions(ledger, Some(d)) = get_positions(UpTo(ledger, d), NULL)
        /\ get_cash_balances(ledger, Some(d))
                = get_cash_balances(UpTo(ledger, d), NULL)
    /\ (ReturnedSnapshot /\ result.as_of_date # NULL) =>
        LET cut == UpTo(ledger, result.as_of_date[1])
        IN  /\ result.positions = get_positions(cut, NULL)
            /\ result.cash_balances = get_cash_balances(cut, NULL)
            /\ Val(result.returned) =
                    get_full_portfolio(fx, get_positions(cut, NULL),
                                       result.market_prices,
                                       get_cash_balances(cut, NULL))

C5_Step ==
    \A d \in Dates :
        (Len(ledger') = Len(ledger) + 1 /\ ledger'[Len(ledger')].date > d) =>
            /\ get_positions(ledger', Some(d)) = get_positions(ledger, Some(d))
            /\ get_cash_balances(ledger', Some(d))
                    = get_cash_balances(ledger, Some(d))
            /\ (ReturnedSnapshot /\ result.as_of_date = Some(d)) =>
                    Quantities(get_full_portfolio(fx,
                                    get_positions(ledger', Some(d)),
                                    result.market_prices,
                                    get_cash_balances(ledger', Some(d))))
                        = Quantities(Val(result.returned))

\* C5: positions(d), cash_balances(d) and the snapshot for d are those of the
\* ledger restricted to the transactions dated d or earlier (a transaction
\* dated d counts), and appending a transaction dated after d changes neither
\* positions(d) nor cash_balances(d) nor the quantities of snapshot(d).
C5_AsOfDate ==
    [](C5_State) /\ [][C5_Step]_vars

\* a snapshot as of date 1 of a ledger with a buy of ABC dated 1 and a buy of
\* XBD dated 2: ABC is in it, XBD is not
C5_Witness ==
    /\ ReturnedSnapshot
    /\ result.as_of_date = Some(1)
    /\ \E j, k \in 1..Len(ledger) :
            /\ ledger[j].date = 1 /\ ledger[j].asset_id = Some(1)
            /\ ledger[k].date = 2 /\ ledger[k].asset_id = Some(2)
    /\ \E i \in 1..Len(Val(result.returned)) : Val(result.returned)[i].ticker = "ABC"
    /\ \A i \in 1..Len(Val(result.returned)) : Val(result.returned)[i].ticker # "XBD"

----------------------------------------------------------------------------
(* C6 *)

----------------------------------------------------------------------------
(* C7 *)

\* currency c has neither a loaded rate nor a static entry towards the target
Unresolved(c) ==
    /\ c # fx.target
    /\ c \notin DOMAIN fx.db_rates
    /\ <<c, fx.target>> \notin DOMAIN FALLBACK_RATES

\* the rate of a resolved currency towards the target
OwnRate(c) ==
    IF c = fx.target THEN RateOne
    ELSE IF c \in DOMAIN fx.db_rates THEN fx.db_rates[c]
    ELSE FALLBACK_RATES[<<c, fx.target>>]

\* C7: for a pair with neither a persisted nor a static rate, get_rate gives
\* 1.0 and prints the warning, and raises nothing; a snapshot with such a
\* line item is returned, that item converted 1:1 with one warning for it,
\* and every other item converted with its own rate.
C7_MissingRate ==
    /\ fx.loaded =>
        \A c \in Currencies :
            Unresolved(c) =>
                /\ get_rate(fx, c, NULL) = RateOne
                /\ RateWarning(fx, c, NULL) = << <<c, fx.target>> >>
    /\ (result.op = "get_full_portfolio" /\ result.raised) =>
            result.failed_query \in Queries
    /\ ReturnedSnapshot =>
        LET df == Val(result.returned)
        IN  /\ \A i \in 1..Len(df) :
                IF Unresolved(df[i].currency)
                THEN /\ df[i].value_base = df[i].value_local * RateOne
                     /\ \E w \in 1..Len(result.warnings) :
                            result.warnings[w] = <<df[i].currency, fx.target>>
                ELSE df[i].value_base = df[i].value_local * OwnRate(df[i].currency)
            /\ Len(result.warnings)
                    = Cardinality(RowsWhere(df, LAMBDA row : Unresolved(row.currency)))

\* a returned snapshot with XBD (currency XYZ, no rate) converted 1:1 under a
\* warning beside ABC converted at the loaded USD rate 7.1
C7_Witness ==
    /\ ReturnedSnapshot
    /\ result.warnings = << <<"XYZ", "CNY">> >>
    /\ \E i, j \in 1..Len(Val(result.returned)) :
        LET df == Val(result.returned)
        IN  /\ df[i].currency = "XYZ" /\ df[i].value_local = 150
            /\ df[i].value_base = 150 * RateOne
            /\ df[j].currency = "USD" /\ df[j].value_local > 0
            /\ df[j].value_base = df[j].value_local * 7100

----------------------------------------------------------------------------
(* C8 *)

\* C8 as stated: whichever query fails, the exchange-rate query included,
\* the failure reaches the caller and no snapshot is returned.
C8_AsStated ==
    /\ (result.op = "new_service" /\ result.failed_query = "exchange_rates") =>
            result.raised
    /\ (result.op = "get_full_portfolio" /\ (result.failed_query # ""
                                              \/ fx.load_failed)) =>
            (result.raised /\ result.returned = NULL)

\* C8 (amended): a failure of the positions, latest-price or cash-balance
\* query reaches the caller, who gets no snapshot, no partial rows and no
\* second attempt; a failure of the exchange-rate query is caught when the
\* service is built: nothing is raised, no rate is loaded, and a later
\* snapshot is returned.
C8_StoreFailure ==
    /\ (result.op = "get_full_portfolio" /\ result.failed_query # "") =>
            /\ result.failed_query \in Queries
            /\ result.raised
            /\ result.returned = NULL
            /\ result.positions = <<>> /\ result.cash_balances = <<>>
    /\ (result.op = "get_full_portfolio" /\ ~result.raised) =>
            (result.failed_query = "" /\ result.returned # NULL)
    /\ (result.op = "new_service" /\ result.failed_query = "exchange_rates") =>
            (~result.raised /\ fx.loaded /\ fx.load_failed
                /\ fx.db_rates = EmptyRates)
    /\ fx.load_failed => fx.db_rates = EmptyRates

\* the cash query fails for a ledger with a held position: the call raises
\* and hands back nothing, although the security rows could have been built
C8_Witness ==
    /\ result.op = "get_full_portfolio"
    /\ result.raised
    /\ result.failed_query = "cash_balances"
    /\ result.returned = NULL
    /\ get_positions(ledger, NULL) # <<>>

----------------------------------------------------------------------------
(* C9 *)

----------------------------------------------------------------------------
(* C10 *)

\* C10: summary().price_warn_count is the number of line items with the
\* price source "cost", which is the number of held positions whose ticker
\* has no row in tb_market_data; no CASH item and no market-priced position
\* is counted.
C10_PriceWarnCount ==
    result.op = "get_summary" =>
        LET df == result.snapshot
            cost == RowsWhere(df, LAMBDA row : row.price_source = "cost")
            unpriced == {k \in 1..Len(result.positions) :
                            ~\E r \in prices :
                                Assets[r.asset_id].ticker
                                    = result.positions[k].ticker}
        IN  /\ Val(result.returned).price_warn_count = Cardinality(cost)
            /\ Cardinality(cost) = Cardinality(unpriced)
            /\ \A i \in cost :
                /\ df[i].type = "SECURITY"
                /\ ~\E r \in prices : Assets[r.asset_id].ticker = df[i].ticker

\* the summary of a snapshot with a market-priced ABC, a cost-priced XBD and
\* a cash item counts 1
C10_Witness ==
    /\ result.op = "get_summary"
    /\ Val(result.returned).price_warn_count = 1
    /\ \E i, j, k \in 1..Len(result.snapshot) :
            /\ result.snapshot[i].price_source = "market"
            /\ result.snapshot[j].price_source = "cost"
            /\ result.snapshot[k].type = "CASH"

----------------------------------------------------------------------------
(* Reference definitions for the distributions: rounding is checked by     *)
(* multiplying back, never by dividing                                     *)

\* the snapshot an analyzer method worked on: its values and their sum
SnapshotValue == [i \in 1..Len(result.snapshot) |-> result.snapshot[i].value_base]

SnapshotTotal == SumIdx(1..Len(result.snapshot), SnapshotValue)

\* the sign of 20000 * u - m * t, for u, m >= 0 and t > 0
Cmp20000(u, m, t) ==
    LET a == t \div 20000
        b == t % 20000
        x == m * a + (m * b) \div 20000
        rem == (m * b) % 20000
    IN  IF u < x THEN -1
        ELSE IF u > x THEN 1
        ELSE IF rem > 0 THEN -1 ELSE 0

\* c (in units of 0.01) is u rounded to two decimals: the nearest, the even
\* one of two nearest
NearestCents(c, u) ==
    \/ 2 * Abs(c * CentUnit - u) < CentUnit
    \/ 2 * Abs(c * CentUnit - u) = CentUnit /\ c % 2 = 0

\* w (in units of 0.01 percent) is u / t * 100 rounded to two decimals
NearestWeight(w, u, t) ==
    /\ w >= 0
    /\ \/ Cmp20000(u, 2 * w + 1, t) = -1
       \/ Cmp20000(u, 2 * w + 1, t) = 0 /\ w % 2 = 0
    /\ \/ w = 0
       \/ Cmp20000(u, 2 * w - 1, t) = 1
       \/ Cmp20000(u, 2 * w - 1, t) = 0 /\ w % 2 = 0

\* the indices of the snapshot's line items of the group of a distribution row
GroupOf(op, row) ==
    {i \in 1..Len(result.snapshot) :
        IF op = "get_asset_class_distribution"
        THEN result.snapshot[i].asset_class = row.asset_class
        ELSE result.snapshot[i].currency = row.currency}

GroupDistributions == {"get_asset_class_distribution", "get_currency_distribution"}

----------------------------------------------------------------------------
(* C11 *)

\* C11: in by_asset_class and by_currency each group's weight_pct is
\* round2(U / T * 100) and its total_value is round2(U), U the unrounded sum
\* of the group's reporting-currency values and T the unrounded sum over the
\* snapshot: each exposed number is rounded once, none is computed from a
\* rounded one.
C11_RoundedOnce ==
    (result.op \in GroupDistributions /\ ~result.raised) =>
        \A k \in 1..Len(Val(result.returned)) :
            LET row == Val(result.returned)[k]
                U == SumIdx(GroupOf(result.op, row), SnapshotValue)
            IN  /\ SnapshotTotal > 0
                /\ NearestCents(row.value_base, U)
                /\ NearestWeight(row.weight_pct, U, SnapshotTotal)

\* an asset-class distribution of three groups in which the weight of the
\* equity group is not the weight its rounded total would give
C11_Witness ==
    /\ result.op = "get_asset_class_distribution"
    /\ Len(Val(result.returned)) = 3
    /\ \E k \in 1..3 :
        LET row == Val(result.returned)[k]
        IN  /\ row.asset_class = "EQUITY"
            /\ row.weight_pct > 0
            /\ row.weight_pct # WeightPct(row.value_base * CentUnit, SnapshotTotal)

----------------------------------------------------------------------------
(* C12 *)

Distributions ==
    GroupDistributions \cup {"get_account_distribution"}

\* the sum of the weight_pct column of a distribution
WeightSum(dist) == SumSeq(MapSeq(dist, LAMBDA row : row.weight_pct))

\* the unrounded value of the CASH line items of the analysed snapshot
SnapshotCash ==
    SumIdx({i \in 1..Len(result.snapshot) : result.snapshot[i].type = "CASH"},
           SnapshotValue)

\* C12 as stated: whenever the total is > 0, the weights of each of the three
\* distributions sum to a number in [99.95, 100.05].
C12_AsStated ==
    (result.op \in Distributions /\ ~result.raised /\ SnapshotTotal > 0) =>
        /\ WeightSum(Val(result.returned)) >= 9995
        /\ WeightSum(Val(result.returned)) <= 10005

\* C12 (amended): whenever the total is > 0, the weights of by_asset_class
\* and of by_currency sum to 100 within 0.005 per group, so to a number in
\* [99.95, 100.05] for up to ten groups; the weights of by_account sum,
\* within 0.005 per row, to the share of cash in the total, which is 100
\* only when the securities have no value.
C12_WeightSum ==
    (result.op \in Distributions /\ ~result.raised /\ SnapshotTotal > 0) =>
        LET dist == Val(result.returned)
            n == Len(dist)
            sum == WeightSum(dist)
        IN  IF result.op \in GroupDistributions
            THEN /\ n >= 1
                 /\ 2 * Abs(sum - 10000) <= n
                 /\ n <= 10 => (sum >= 9995 /\ sum <= 10005)
            ELSE /\ Cmp20000(SnapshotCash, 2 * sum + n, SnapshotTotal) <= 0
                 /\ \/ 2 * sum <= n
                    \/ Cmp20000(SnapshotCash, 2 * sum - n, SnapshotTotal) >= 0
                 /\ SnapshotCash = SnapshotTotal => 2 * Abs(sum - 10000) <= n

\* a by_account distribution of two cash rows beside valued securities: its
\* weights sum to less than 99.95
C12_Witness ==
    /\ result.op = "get_account_distribution"
    /\ Len(Val(result.returned)) = 2
    /\ SnapshotCash < SnapshotTotal
    /\ WeightSum(Val(result.returned)) > 0
    /\ WeightSum(Val(result.returned)) < 9995

----------------------------------------------------------------------------
(* C13 *)

\* the line-item schema for the reporting currency CNY
LineItemSchema ==
    {"type", "ticker", "name", "asset_class", "sub_class", "currency", "qty",
     "avg_cost", "latest_price", "price_source", "value_local", "value_cny"}

\* the last snapshot call found no position and no positive cash balance
NothingHeld ==
    /\ result.positions = <<>>
    /\ \A k \in 1..Len(result.cash_balances) :
            result.cash_balances[k].balance <= 0

\* C13: with zero positions and zero cash the snapshot is an empty sequence
\* that carries the line-item schema and nothing is raised; an analyzer built
\* on it raises nothing, its three distributions are empty and its summary
\* has total_value = security_value = cash_value = 0 and position_count =
\* price_warn_count = 0; every distribution is empty whenever the snapshot's
\* total is zero.
C13_Empty ==
    /\ (result.op = "get_full_portfolio" /\ result.failed_query = ""
            /\ NothingHeld) =>
            /\ ~result.raised
            /\ result.returned = Some(<<>>)
            /\ result.columns = LineItemSchema
    /\ (result.op \in Distributions \cup {"get_summary"}
            /\ result.snapshot = <<>>) =>
            /\ ~result.raised
            /\ result.op \in Distributions => result.returned = Some(<<>>)
            /\ result.op = "get_summary" =>
                    /\ Val(result.returned).total_value = 0
                    /\ Val(result.returned).security_value = 0
                    /\ Val(result.returned).cash_value = 0
                    /\ Val(result.returned).position_count = 0
                    /\ Val(result.returned).price_warn_count = 0
    /\ (result.op \in Distributions /\ SnapshotTotal = 0) =>
            (~result.raised /\ result.returned = Some(<<>>))

\* the summary of the snapshot of an empty ledger
C13_Witness ==
    /\ ledger = <<>>
    /\ result.op = "get_summary"
    /\ result.snapshot = <<>>
    /\ result.columns = LineItemSchema
    /\ ~result.raised
    /\ Val(result.returned).total_value = 0

----------------------------------------------------------------------------
(* C14 *)

\* the indices of the analysed snapshot's line items of one type
ItemsOfType(type) ==
    {i \in 1..Len(result.snapshot) : result.snapshot[i].type = type}

\* C14: summary() has total_value = round2(sum of the reporting-currency
\* values of all line items), security_value = round2(sum over SECURITY
\* items), cash_value = round2(sum over CASH items) and position_count = the
\* number of SECURITY items.
C14_Summary ==
    (result.op = "get_summary" /\ ~result.raised) =>
        LET summary == Val(result.returned)
        IN  /\ NearestCents(summary.total_value, SnapshotTotal)
            /\ NearestCents(summary.security_value,
                            SumIdx(ItemsOfType("SECURITY"), SnapshotValue))
            /\ NearestCents(summary.cash_value, SnapshotCash)
            /\ summary.position_count = Cardinality(ItemsOfType("SECURITY"))
            /\ summary.position_count + Cardinality(ItemsOfType("CASH"))
                    = Len(result.snapshot)
            /\ summary.base_currency = fx.target

\* a summary of two positions and a cash item whose three values are each
\* rounded from their own sum: the rounded parts do not add up to the total
C14_Witness ==
    /\ result.op = "get_summary"
    /\ Val(result.returned).position_count = 2
    /\ Cardinality(ItemsOfType("CASH")) >= 1
    /\ Val(result.returned).cash_value > 0
    /\ Val(result.returned).total_value
            # Val(result.returned).security_value + Val(result.returned).cash_value

----------------------------------------------------------------------------
(* C15 *)

\* some line item of the group of a distribution row is priced at cost
SomeAtCost(op, row) ==
    \E i \in GroupOf(op, row) : result.snapshot[i].price_source = "cost"

\* C15 as stated: in every group-by distribution each group has a
\* has_cost_only flag, true exactly when a line item of the group has the
\* price source cost.
C15_AsStated ==
    (result.op \in GroupDistributions /\ ~result.raised) =>
        \A k \in 1..Len(Val(result.returned)) :
            LET row == Val(result.returned)[k]
            IN  /\ "has_cost_only" \in DOMAIN row
                /\ row.has_cost_only = SomeAtCost(result.op, row)

\* C15 (amended): in by_asset_class a group's has_cost_only flag is true
\* exactly when at least one line item of the group has the price source
\* cost, and false when every item of the group is market priced or a cash
\* item; by_currency carries no such flag.
C15_CostOnlyFlag ==
    /\ (result.op = "get_asset_class_distribution" /\ ~result.raised) =>
        \A k \in 1..Len(Val(result.returned)) :
            LET row == Val(result.returned)[k]
            IN  /\ GroupOf(result.op, row) # {}
                /\ row.has_cost_only = SomeAtCost(result.op, row)
                /\ (\A i \in GroupOf(result.op, row) :
                        result.snapshot[i].price_source \in {"market", "N/A"})
                        => ~row.has_cost_only
    /\ (result.op = "get_currency_distribution" /\ ~result.raised) =>
        \A k \in 1..Len(Val(result.returned)) :
            "has_cost_only" \notin DOMAIN Val(result.returned)[k]

\* by_asset_class of ABC at its market price, EFG at cost and a cash item:
\* the equity group of two is flagged, the cash group is not
C15_Witness ==
    /\ result.op = "get_asset_class_distribution"
    /\ \E k, c \in 1..Len(Val(result.returned)) :
        LET row == Val(result.returned)[k]
            cash == Val(result.returned)[c]
        IN  /\ row.asset_class = "EQUITY" /\ row.count = 2 /\ row.has_cost_only
            /\ \E i \in GroupOf(result.op, row) :
                    result.snapshot[i].price_source = "market"
            /\ cash.asset_class = "CASH" /\ ~cash.has_cost_only

----------------------------------------------------------------------------
(* C16 *)

\* C16 as stated: a by_currency record has the shape of a by_asset_class
\* record, has_cost_only flag included, each field computed by the same rule
\* with the currency as the key.
C16_AsStated ==
    (result.op = "get_currency_distribution" /\ ~result.raised) =>
        \A k \in 1..Len(Val(result.returned)) :
            LET row == Val(result.returned)[k]
            IN  /\ DOMAIN row = {"currency", "label", "value_base", "weight_pct",
                                 "count", "has_cost_only"}
                /\ row.has_cost_only = SomeAtCost(result.op, row)

\* the snapshot with the currency written into the asset_class column
KeyedByCurrency(df) ==
    [i \in 1..Len(df) |-> [df[i] EXCEPT !.asset_class = df[i].currency]]

\* C16 (amended): by_currency returns records of grouping key,
\* display_label, total_value, weight_pct and item_count, each computed by
\* the rule of by_asset_class with currency as the grouping key and the
\* currency label table in place of the asset-class one; it has no
\* has_cost_only flag.
C16_CurrencyShape ==
    (result.op = "get_currency_distribution" /\ ~result.raised) =>
        LET dist == Val(result.returned)
            byClass == get_asset_class_distribution(KeyedByCurrency(result.snapshot))
        IN  /\ Len(dist) = Len(byClass)
            /\ \A k \in 1..Len(dist) :
                /\ DOMAIN dist[k] = {"currency", "label", "value_base",
                                     "weight_pct", "count"}
                /\ dist[k].currency = byClass[k].asset_class
                /\ dist[k].value_base = byClass[k].value_base
                /\ dist[k].weight_pct = byClass[k].weight_pct
                /\ dist[k].count = byClass[k].count
                /\ dist[k].count = Cardinality(GroupOf(result.op, dist[k]))
                /\ dist[k].label = IF dist[k].currency \in DOMAIN CURRENCY_LABELS
                                   THEN CURRENCY_LABELS[dist[k].currency]
                                   ELSE dist[k].currency

\* by_currency of ABC, XBD and USD cash: a USD group of two items with its
\* label, and an XYZ group labelled by its code
C16_Witness ==
    /\ result.op = "get_currency_distribution"
    /\ Len(Val(result.returned)) = 2
    /\ \E k, x \in 1..2 :
        LET usd == Val(result.returned)[k]
            xyz == Val(result.returned)[x]
        IN  /\ usd.currency = "USD" /\ usd.count = 2
            /\ usd.label = "US dollar (USD)"
            /\ xyz.currency = "XYZ" /\ xyz.label = "XYZ" /\ xyz.count = 1

----------------------------------------------------------------------------
(* C17 *)

\* the k-th CASH line item of the analysed snapshot
NthCash(k) ==
    result.snapshot[CHOOSE i \in ItemsOfType("CASH") :
                        Cardinality({j \in ItemsOfType("CASH") : j <= i}) = k]

\* C17: for a snapshot with non-zero total, by_account has exactly one row
\* per CASH line item and no row derived from a SECURITY line item, whatever
\* the asset classes of the securities.
C17_AccountRows ==
    (result.op = "get_account_distribution" /\ ~result.raised
        /\ SnapshotTotal # 0) =>
        LET dist == Val(result.returned)
        IN  /\ Len(dist) = Cardinality(ItemsOfType("CASH"))
            /\ \A k \in 1..Len(dist) :
                /\ dist[k].name = NthCash(k).name
                /\ dist[k].currency = NthCash(k).currency
                /\ dist[k].qty = NthCash(k).qty
                /\ NearestCents(dist[k].value_base, NthCash(k).value_base)
            /\ \A k \in 1..Len(dist) :
                \A i \in ItemsOfType("SECURITY") :
                    dist[k].name # result.snapshot[i].name

\* by_account of a snapshot with an equity, a bond and one cash item: one row
C17_Witness ==
    /\ result.op = "get_account_distribution"
    /\ Len(Val(result.returned)) = 1
    /\ \E i, j \in ItemsOfType("SECURITY") :
        /\ result.snapshot[i].asset_class = "EQUITY"
        /\ result.snapshot[j].asset_class = "BOND"
    /\ Val(result.returned)[1].name = "IB cash"

----------------------------------------------------------------------------
(* C18 *)

\* the security line items followed by the cash line items of the last
\* snapshot call
LineItems ==
    build_security_df(fx, result.positions, result.market_prices)
        \o build_cash_df(fx, result.cash_balances)

\* (asset_class, currency, ticker) of a line item, as strings are compared
ItemKey(row) ==
    <<StrRank(row.asset_class), StrRank(row.currency), StrRank(row.ticker)>>

\* C18: the snapshot is a permutation of the security line items followed by
\* the cash line items, nothing lost or duplicated, in non-decreasing
\* lexicographic order of (asset_class, currency, ticker); no two line items
\* share a key, so the line items determine the sequence.
C18_Sorted ==
    ReturnedSnapshot =>
        LET df == Val(result.returned)
        IN  /\ Len(df) = Len(LineItems)
            /\ \A i \in 1..Len(LineItems) :
                Cardinality({j \in 1..Len(df) : df[j] = LineItems[i]}) = 1
            /\ \A j \in 1..Len(df) :
                Cardinality({i \in 1..Len(LineItems) : LineItems[i] = df[j]}) = 1
            /\ \A i, j \in 1..Len(df) :
                i < j => /\ Lex3Leq(ItemKey(df[i]), ItemKey(df[j]))
                         /\ ItemKey(df[i]) # ItemKey(df[j])

\* a snapshot of three items that the sort rearranged: the cash item leads,
\* EFG (HKD) precedes ABC (USD) within the equities
C18_Witness ==
    /\ ReturnedSnapshot
    /\ Len(Val(result.returned)) = 3
    /\ Val(result.returned) # LineItems
    /\ Val(result.returned)[1].asset_class = "CASH"
    /\ Val(result.returned)[2].ticker = "EFG"
    /\ Val(result.returned)[3].ticker = "ABC"

----------------------------------------------------------------------------
(* C19 *)

\* the records of tb_market_data of one ticker
RecordsOf(tk) ==
    {r \in prices : Assets[r.asset_id].ticker = tk}

\* r is a record of the greatest date among the records of its ticker
MostRecent(r) ==
    \A q \in RecordsOf(Assets[r.asset_id].ticker) : q.date <= r.date

\* C19: latest_prices() maps every ticker with at least one market-price
\* record to the close price and date of its record of the greatest date,
\* and has no entry for a ticker without records; no date cut-off applies,
\* so a snapshot taken as of a date still values a position with the most
\* recent recorded price.
C19_LatestPrices ==
    /\ result.op = "get_latest_market_prices" =>
        LET latest == Val(result.returned)
        IN  /\ DOMAIN latest = {Assets[r.asset_id].ticker : r \in prices}
            /\ \A tk \in DOMAIN latest :
                \E r \in RecordsOf(tk) :
                    /\ MostRecent(r)
                    /\ latest[tk].price = r.close_price
                    /\ latest[tk].date = r.date
    /\ ReturnedSnapshot =>
        \A i \in 1..Len(Val(result.returned)) :
            LET row == Val(result.returned)[i]
            IN  (row.type = "SECURITY" /\ RecordsOf(row.ticker) # {}) =>
                    /\ row.price_source = "market"
                    /\ \E r \in RecordsOf(row.ticker) :
                            MostRecent(r) /\ row.latest_price = r.close_price

\* a snapshot as of date 1 values ABC at 13.0, its close of date 2, not at
\* the 12.0 recorded on date 1
C19_Witness ==
    /\ ReturnedSnapshot
    /\ result.as_of_date = Some(1)
    /\ \E r \in prices : r.asset_id = 1 /\ r.date = 1 /\ r.close_price = 120
    /\ \E i \in 1..Len(Val(result.returned)) :
            /\ Val(result.returned)[i].ticker = "ABC"
            /\ Val(result.returned)[i].latest_price = 130

----------------------------------------------------------------------------
(* C20 *)

\* what engines freshly constructed on the rate table R return for the
\* transactions and prices now in the store, as of the date of the last call
FreshSnapshots(R) ==
    {get_full_portfolio(FxService(fx.target, loaded, FALSE),
                        get_positions(ledger, result.as_of_date),
                        market_prices,
                        get_cash_balances(ledger, result.as_of_date)) :
        loaded \in get_latest_exchange_rates(R, fx.target),
        market_prices \in get_latest_market_prices(prices)}

\* C20 as stated: a snapshot call on an engine whose rate query answered
\* returns what a freshly constructed engine returns for the store contents
\* at the time of the call.
C20_AsStated ==
    (ReturnedSnapshot /\ ~fx.load_failed) =>
        Val(result.returned) \in FreshSnapshots(rates)

\* C20 (amended): a snapshot call returns what a freshly constructed engine
\* would return for the transactions and market prices at the time of the
\* call and the exchange rates as they were when the engine was constructed
\* (none, if its rate query failed): it equals the fresh engine's snapshot
\* whenever the latest rates are still the ones loaded at construction.
C20_RatesAtConstruction ==
    /\ (ReturnedSnapshot /\ ~fx.load_failed) =>
        /\ \E R \in SUBSET rates :
            /\ fx.db_rates \in get_latest_exchange_rates(R, fx.target)
            /\ Val(result.returned) \in FreshSnapshots(R)
        /\ fx.db_rates \in get_latest_exchange_rates(rates, fx.target) =>
                Val(result.returned) \in FreshSnapshots(rates)
    /\ (ReturnedSnapshot /\ fx.load_failed) =>
        Val(result.returned) \in FreshSnapshots({})

\* a snapshot taken after a USD rate of 7.1 was stored, by an engine built
\* before: ABC is converted at the static 7.25
C20_Witness ==
    /\ ReturnedSnapshot
    /\ ~fx.load_failed
    /\ fx.db_rates = EmptyRates
    /\ \E r \in rates : r.from_currency = "USD" /\ r.rate = 7100
    /\ \E i \in 1..Len(Val(result.returned)) :
        LET row == Val(result.returned)[i]
        IN  /\ row.ticker = "ABC"
            /\ row.value_base = row.value_local * 7250

----------------------------------------------------------------------------
(* C21 *)

\* the snapshot a fresh call of get_full_portfolio returned to the caller
\* (recomputed from the values the engine call read)
PassedSnapshot ==
    get_full_portfolio(fx, result.positions, result.market_prices,
                       result.cash_balances)

PassedColumns ==
    ConcatColumns(build_security_df(fx, result.positions, result.market_prices),
                  build_cash_df(fx, result.cash_balances), fx.target)

OnAnalyzer ==
    result.op \in AnalyzerMethods \cup {"new_analysis"} /\ ~result.raised

\* C21: after an AnalysisService has been built on a snapshot and its four
\* methods called any number of times in any order, the caller's snapshot has
\* the rows (no rounded value) and the columns (no added column) it was passed
\* with, no store query was issued beyond the three of the snapshot call, and
\* the method just called returned what it returned when first called.
C21_ReadOnly ==
    OnAnalyzer =>
        /\ result.snapshot = PassedSnapshot
        /\ result.columns = PassedColumns
        /\ "weight_pct" \notin result.columns
        /\ result.queries = 3
        /\ result.op \in AnalyzerMethods =>
                /\ result.first[result.op] # NULL
                /\ result.returned = result.first[result.op]

\* every method has been called, one of them again, the account distribution
\* last, on a snapshot with a cash value that rounding changes
C21_Witness ==
    /\ OnAnalyzer
    /\ result.op = "get_account_distribution"
    /\ \A m \in AnalyzerMethods : result.first[m] # NULL
    /\ result.repeated
    /\ Val(result.returned) # <<>>
    /\ \E i \in 1..Len(result.snapshot) :
            /\ result.snapshot[i].type = "CASH"
            /\ result.snapshot[i].value_base % CentUnit # 0

----------------------------------------------------------------------------
(* C22 *)

\* the rows of the table for one pair
PairRows(from_currency, to_currency) ==
    {r \in rates : r.from_currency = from_currency /\ r.to_currency = to_currency}

\* a resolver has just loaded its rates, and the table is as it was loaded
JustLoaded ==
    result.op = "new_service" /\ ~fx.load_failed

\* C22 (the part on dates): the rate a resolver loaded for a pair is the rate
\* of a row of that pair with the most recent date
C22_MostRecentDate ==
    JustLoaded =>
        \A c \in DOMAIN fx.db_rates :
            \E r \in PairRows(c, fx.target) :
                /\ r.rate = fx.db_rates[c]
                /\ \A q \in PairRows(c, fx.target) : q.date <= r.date

\* a rate was loaded for a pair with an older row and two rows of different
\* rates on the most recent date
C22_Witness ==
    /\ JustLoaded
    /\ \E c \in DOMAIN fx.db_rates :
            \E q, r1, r2 \in PairRows(c, fx.target) :
                /\ q.date < r1.date
                /\ r1.date = r2.date
                /\ r1.rate # r2.rate
                /\ \A r \in PairRows(c, fx.target) : r.date <= r1.date

\* C22: the persisted rate used for a pair is the one with the most recent
\* date, and two loads over the same contents of the exchange-rate table, to
\* the same target, yield the same rates, also when several rows of a pair
\* share the most recent date.
C22_TwoLoads ==
    /\ []C22_MostRecentDate
    /\ [][(/\ JustLoaded
           /\ JustLoaded'
           /\ rates' = rates
           /\ fx'.target = fx.target) => fx'.db_rates = fx.db_rates]_vars

----------------------------------------------------------------------------
(* C23 *)

\* a session whose with-block ran has been left
SessionLeft ==
    InSession("done") /\ result.session.connected

----------------------------------------------------------------------------
(* C24 *)

\* SUM(CASE WHEN t.qty > 0 THEN t.qty ELSE 0 END) of asset a: what the
\* weighted-average cost is divided by
CostDenominator(a) ==
    SumSeq(MapSeq(PositionRows(ledger, result.as_of_date, a), BuyQtyTerm))

\* C24: every position in the output of get_positions has a filtered row
\* with qty > 0, and the sum of qty over its rows with qty > 0 (the
\* denominator of the average cost) is at least its total_qty, which exceeds
\* 0.0001; so an asset whose denominator is zero is not in the output.
C24_Denominator ==
    result.op = "get_positions" =>
        LET out == Val(result.returned)
            d == result.as_of_date
        IN  /\ \A i \in 1..Len(out) :
                LET a == out[i].asset_id
                    buys == BuyIdx(ledger, d, a)
                IN  /\ buys # {}
                    /\ SumIdx(buys, QtyAt(ledger)) >= out[i].total_qty
                    /\ out[i].total_qty > QtyEps
                    /\ CostDenominator(a) = SumIdx(buys, QtyAt(ledger))
                    /\ CostDenominator(a) # 0
            /\ \A a \in DOMAIN Assets :
                CostDenominator(a) = 0 => \A i \in 1..Len(out) : out[i].asset_id # a

\* a position is returned whose buys exceed its total, while another asset
\* has filtered rows and none of them a buy
C24_Witness ==
    /\ result.op = "get_positions"
    /\ \E i \in 1..Len(Val(result.returned)) :
            LET pos == Val(result.returned)[i]
            IN  SumIdx(BuyIdx(ledger, result.as_of_date, pos.asset_id), QtyAt(ledger))
                    > pos.total_qty
    /\ \E a \in DOMAIN Assets :
            /\ TradeIdx(ledger, result.as_of_date, a) # {}
            /\ CostDenominator(a) = 0

----------------------------------------------------------------------------
(* C25 *)

\* C25: in every returned snapshot, for any ledger and as-of date, each
\* SECURITY line item has qty > 0.0001 and each CASH line item has
\* qty > 0.01 and a local value equal to its qty (at the price 1.0); no line
\* item has a zero or negative quantity.
C25_PositiveQuantities ==
    ReturnedSnapshot =>
        LET df == Val(result.returned)
        IN  \A i \in 1..Len(df) :
                /\ df[i].type \in {"SECURITY", "CASH"}
                /\ df[i].type = "SECURITY" => df[i].qty > QtyEps
                /\ df[i].type = "CASH" =>
                        /\ df[i].qty > CashEps
                        /\ df[i].value_local = df[i].qty * PriceOne
                /\ df[i].qty > 0

\* a snapshot with a SECURITY and a CASH line item over a ledger in which an
\* asset has a total of at most 0.0001 and a cash group a balance of at most
\* 0.01, as of the snapshot's date
C25_Witness ==
    /\ ReturnedSnapshot
    /\ \E i, j \in 1..Len(Val(result.returned)) :
            /\ Val(result.returned)[i].type = "SECURITY"
            /\ Val(result.returned)[j].type = "CASH"
    /\ \E a \in DOMAIN Assets :
            /\ TradeIdx(ledger, result.as_of_date, a) # {}
            /\ SumIdx(TradeIdx(ledger, result.as_of_date, a), QtyAt(ledger)) <= QtyEps
    /\ \E acc \in DOMAIN Accounts, cur \in Currencies :
            /\ FlowIdx(ledger, result.as_of_date, acc, cur) # {}
            /\ SumIdx(FlowIdx(ledger, result.as_of_date, acc, cur), FlowAt(ledger))
                    <= CashEps

----------------------------------------------------------------------------
(* C26 *)

====
